---- MODULE Spec2Model ----
(***************************************************************************)
(* Painterly background core of the portfolio site: the displacement-field *)
(* simulation (shaders/displacement.ts), the ThreeManager render pipeline   *)
(* with its ping-pong buffers, and the SceneController orchestrator with    *)
(* its idle / wash state machine.                                          *)
(*                                                                         *)
(* Numbers that are floats in the program are fixed-point integers scaled   *)
(* by FP here.  Times are milliseconds as returned by Date.now().           *)
(***************************************************************************)
EXTENDS Integers, Sequences, FiniteSets, TLC

\* ------------------------------------------------------------------------
\* Program constants
\* ------------------------------------------------------------------------
idleTimeout == 15000
washDuration == 5000
totalPaintings == 7
PollPeriod == 500
mouseLerp == 100
AttackRate == 300
ReleaseRate == 50
SpeedGain == 50
MaxDpr == 2000
loadTimeout == 8000
minDisplayTime == 300
transitionDuration == 2000

\* Fixed-point scale: 1.0 is represented by FP.
FP == 1000

\* ------------------------------------------------------------------------
\* Bounds of the model
\* ------------------------------------------------------------------------
TimeQuantum == 2500      \* granularity at which the clock is observed (ms)
MaxTime == 55000         \* the clock stops advancing here
MaxEvents == 1           \* number of external input events in a run
MaxCycleTime == 145000   \* horizon of the painting-cycle specification
MaxStopTime == 45000     \* horizon of the stop / start specification
MaxBootTime == 12500     \* horizon of the page-setup specification
LoadQuantum == 100       \* ms between frames while the loading screen is young
ColorQuantum == 750      \* ms between frames of the colour specification
MaxColorTime == 4500     \* horizon of the colour specification
MaxSectionChanges == 2   \* section changes observed
MaxRenders == 4          \* render() calls made on the renderer alone

\* Inputs of the environment
Null == "null"
Placeholder == "placeholder"
NoTexture == 0 - 1          \* a null entry of paintingTextures
PlaceholderImage == 0 - 2   \* the 1x1 placeholder texture
PaintingIdx == 0 .. (totalPaintings - 1)
AspectChoices == <<1500, 1000>>
MoveTargets == {<<900, 100>>}
ResizeInputs == {<<900, 1200, 3000>>, <<1600, 900, 0>>}
InitialWindow == <<1600, 900, 1000>>
WashAngles == {1571, 4712}
FailFamilies == {{}, {1}, PaintingIdx}
GlThrows == 0 - 1           \* new THREE.WebGLRenderer throws
GlContexts == {2, 0, GlThrows}

\* texture.image.width / texture.image.height of painting i
PaintingAspect(i) == AspectChoices[(i % 2) + 1]

\* ------------------------------------------------------------------------
\* Arithmetic helpers
\* ------------------------------------------------------------------------
Min(a, b) == IF a < b THEN a ELSE b
Max(a, b) == IF a > b THEN a ELSE b
Abs(a) == IF a < 0 THEN -a ELSE a

\* the single value of a one-element set (binds a value computed once)
The(S) == CHOOSE x \in S : TRUE

\* Division rounding toward zero (fixed-point counterpart of float division)
DivT(a, b) == The({IF v >= 0 THEN v \div b ELSE -((-v) \div b) : v \in {a}})

\* Integer square root (floor)
RECURSIVE IsqrtIn(_, _, _)
IsqrtIn(n, lo, hi) ==
  IF lo >= hi THEN lo
  ELSE LET mid == (lo + hi + 1) \div 2
       IN IF mid * mid <= n THEN IsqrtIn(n, mid, hi)
          ELSE IsqrtIn(n, lo, mid - 1)
Isqrt(n) == IF n <= 0 THEN 0 ELSE IsqrtIn(n, 0, Min(n, 46340))

\* an interpolation that always lands on its end point
lerpJump(start, end, t) == end

\* SceneController.lerp: start + (end - start) * t
lerp(start, end, t) == start + DivT((end - start) * t, FP)

\* an intensity smoothing with attack and release exchanged
smoothIntensitySwapped(current, target) ==
  IF target > current THEN lerp(current, target, ReleaseRate)
  ELSE lerp(current, target, AttackRate)

\* update(): fast ramp up (0.3), slow decay (0.05)
smoothIntensity(current, target) ==
  IF target > current THEN lerp(current, target, AttackRate)
  ELSE lerp(current, target, ReleaseRate)

\* ------------------------------------------------------------------------
\* State
\* ------------------------------------------------------------------------
VARIABLES
  \* environment
  now,                \* Date.now()
  window,             \* <<innerWidth, innerHeight, devicePixelRatio>>
  hidden,             \* document is hidden: frame callbacks are suspended
  netFails,           \* paintings whose load will fail
  nextPollTime,       \* due time of the next setInterval callback
  rafPending,         \* number of scheduled requestAnimationFrame callbacks
  rafReady,           \* how many of them were requested before this instant
  \* SceneController
  mousePos, targetMousePos, prevMousePos,
  isMouseActive, moveIntensity, targetMoveIntensity,
  isAnimating, lastFrameTime, startTime,
  lastActivityTime, isIdle, idleStartTime, idleCheckInterval,
  currentPaintingIndex, isWashTransitioning, washProgress, washStartTime,
  \* ThreeManager
  isMobile, resolution,
  paintingTextures, loadsSettled, loadsDone, tmPaintingIndex,
  u_imageCurrent, u_imageNext, u_imageAspect, u_imageAspectNext,
  u_useImage, u_washProgress, u_washAngle,
  noiseResolution, kuwaharaResolution, watercolorResolution,
  dispResolution, dispImageAspect,
  dispMouse, dispPrevMouse, u_isActive, u_moveIntensity, u_time,
  kuwaharaMouse,
  currentDisplacementTarget, tPrevState,
  displacementTargetA, displacementTargetB,
  kuwaharaDisplacement, watercolorDisplacement,
  \* displacement simulation on a concrete grid (shader semantics)
  simField, simSteps,
  simPrevField,       \* the field the last simulation step read
  simUniforms,        \* the uniforms the last simulation step ran with
  \* history
  lastOp,             \* the handler that ran last
  events,             \* external input events so far
  stepCount,          \* calls of renderDisplacementPass
  renderCount,        \* calls of composer.render()
  washCount,          \* wash triggers
  lastSource, lastTarget, prevTarget,   \* buffers of the last two steps
  lastReadTags, lastStepTag,           \* what the last step read / its mapping
  mappingChangedBy,                    \* operation that last changed the mapping
  lastTriggerTime, prevTriggerTime, lastCompleteTime, lastMoveTime,
  lastMoveState,                       \* <<isIdle, isWashTransitioning>> at the last mousemove
  lastStepUniforms,    \* uniforms the last displacement pass ran with
  lastRenderUniforms,  \* uniforms the last composer.render() ran with
  \* page setup (main.ts)
  prefersReducedMotion,   \* matchMedia('(prefers-reduced-motion: reduce)')
  glContext,              \* WebGL version the browser offers, or GlThrows
  threeManager,           \* Portfolio.threeManager: Null or "created"
  sceneController,        \* Portfolio.sceneController: Null or "created"
  canvasHidden,           \* canvas.style.display = 'none'
  initAttempts,           \* calls of initWebGL
  setupPhase,             \* "page", "waiting", "minDisplay", "revealed"
  fontsReady,             \* document.fonts.ready has resolved
  firstFrame,             \* nested frame callbacks of waitForFirstFrame run
  firstFrameAt,           \* time at which its pending callback was requested
  resizeListening,        \* the window resize listener is installed
  \* section colours (SceneController with colour transitions)
  currentSection, targetColors, currentColors, transitionProgress,
  transitionStartTime, isTransitioning,
  u_color1, u_color2,     \* noise material uniforms
  transitionStartColors,  \* currentColors when the transition was started
  sectionChanges,         \* changeSection calls so far
  \* one fragment of a composition shader
  shaderIn,               \* what the fragment reads: textures, uniforms, vUv
  shaderOut,              \* what the passes computed for it so far
  \* page interactions (main.ts)
  expandedArticles,       \* project articles carrying is-expanded
  pinnedItem,             \* experience panel: the pinned item, 0 for null
  isHoveringAnyItem,
  hideTimeout,            \* Null, "pending", or "fired" (a stale id)
  panelVisible,           \* the panel carries is-visible
  expandedItems           \* experience items carrying is-expanded

envVars == <<now, window, hidden, netFails, nextPollTime, rafPending, rafReady>>
pointerVars == <<mousePos, targetMousePos, prevMousePos, isMouseActive,
                 moveIntensity, targetMoveIntensity>>
loopVars == <<isAnimating, lastFrameTime, startTime>>
idleVars == <<lastActivityTime, isIdle, idleStartTime, idleCheckInterval>>
washVars == <<currentPaintingIndex, isWashTransitioning, washProgress,
              washStartTime>>
imageVars == <<paintingTextures, loadsSettled, loadsDone, tmPaintingIndex,
               u_imageCurrent, u_imageNext, u_imageAspect, u_imageAspectNext,
               u_useImage, u_washProgress, u_washAngle, dispImageAspect>>
resVars == <<isMobile, resolution, noiseResolution, kuwaharaResolution,
             watercolorResolution, dispResolution>>
uniformVars == <<dispMouse, dispPrevMouse, u_isActive, u_moveIntensity,
                 u_time, kuwaharaMouse>>
bufferVars == <<currentDisplacementTarget, tPrevState, displacementTargetA,
                displacementTargetB, kuwaharaDisplacement,
                watercolorDisplacement>>
simVars == <<simField, simSteps, simPrevField, simUniforms, shaderIn, shaderOut>>
histVars == <<lastOp, events, stepCount, renderCount, washCount, lastSource,
              lastTarget, prevTarget, lastReadTags, lastStepTag,
              mappingChangedBy, lastTriggerTime, prevTriggerTime,
              lastCompleteTime, lastMoveTime, lastMoveState>>

orderVars == <<lastStepUniforms, lastRenderUniforms>>
colorVars == <<currentSection, targetColors, currentColors,
               transitionProgress, transitionStartTime, isTransitioning,
               u_color1, u_color2, transitionStartColors, sectionChanges>>
bootVars == <<prefersReducedMotion, glContext, threeManager, sceneController,
              canvasHidden, initAttempts, setupPhase, fontsReady, firstFrame,
              firstFrameAt, resizeListening>>

pageVars == <<expandedArticles, pinnedItem, isHoveringAnyItem, hideTimeout,
              panelVisible, expandedItems>>

vars == <<envVars, pointerVars, loopVars, idleVars, washVars, imageVars,
          resVars, uniformVars, bufferVars, simVars, histVars, orderVars,
          bootVars, colorVars, pageVars>>

\* ------------------------------------------------------------------------
\* ThreeManager
\* ------------------------------------------------------------------------
Other(buf) == IF buf = "A" THEN "B" ELSE "A"

\* renderDisplacementPass: the buffer bound as tPrevState
SourceOf(flag) == IF flag = "A" THEN "A" ELSE "B"

\* renderDisplacementPass: the render target
TargetOf(flag) == IF flag = "A" THEN "B" ELSE "A"

\* a swap that leaves the role flag where it was
SwapTargetStuck(flag) == flag

\* renderDisplacementPass: swap targets for next frame
SwapTarget(flag) == IF flag = "A" THEN "B" ELSE "A"

\* getDisplacementTexture, evaluated on the role flag
getDisplacementTexture(flag) == IF flag = "A" THEN "B" ELSE "A"

\* render() on a mobile device skips the displacement pass
RunsDisplacementNever == FALSE

\* render(): if (!this.isMobile) renderDisplacementPass()
RunsDisplacement == ~isMobile

\* a pass that runs before this frame's uniforms are pushed
UniformsAtStepFirst(before, pushed) == before

\* update() calls render() last: the displacement pass runs with the
\* uniforms this frame has pushed, not with those of the frame before
UniformsAtStep(before, pushed) == pushed

\* Content of a displacement buffer, abstracted to the set of coordinate
\* mappings <<image aspect, resolution>> under which its non-zero heights
\* were injected.  The empty set is the all-zero field.
BufferOf(buf) == IF buf = "A" THEN displacementTargetA ELSE displacementTargetB

\* One pass of the displacement shader over the abstract content: heights
\* already in the field stay where they were injected; an active pointer
\* injects under the mapping the shader currently holds.
DisplacementPass(prev, active, mapping) ==
  prev \cup (IF active > 500 THEN {mapping} ELSE {})

\* a pixel ratio that is not capped
DprUncapped(w) == IF w[3] = 0 THEN FP ELSE w[3]

\* resize(): dpr = Math.min(window.devicePixelRatio || 1, 2)
Dpr(w) == Min(IF w[3] = 0 THEN FP ELSE w[3], MaxDpr)

\* resize(): this.resolution.set(width * dpr, height * dpr)
ResolutionOf(w) == <<(w[1] * Dpr(w)) \div FP, (w[2] * Dpr(w)) \div FP>>

\* prepareNextPainting: <<u_imageNext, u_imageAspectNext>> afterwards
prepareNextPainting(nextIndex) ==
  IF paintingTextures[nextIndex] # NoTexture
  THEN <<nextIndex, PaintingAspect(nextIndex)>>
  ELSE <<u_imageNext, u_imageAspectNext>>

\* a completion that forgets to record the new index
completePaintingTransitionStale(newIndex) ==
  [index |-> tmPaintingIndex, image |-> u_imageCurrent,
   aspect |-> u_imageAspect, dispAspect |-> dispImageAspect]

\* a completion that records the new index only when its image has loaded
completePaintingTransitionLoadedOnly(newIndex) ==
  IF paintingTextures[newIndex] # NoTexture
  THEN [index |-> newIndex, image |-> newIndex,
        aspect |-> PaintingAspect(newIndex),
        dispAspect |-> PaintingAspect(newIndex)]
  ELSE [index |-> tmPaintingIndex, image |-> u_imageCurrent,
        aspect |-> u_imageAspect, dispAspect |-> dispImageAspect]

\* completePaintingTransition: the fields it assigns
completePaintingTransition(newIndex) ==
  IF paintingTextures[newIndex] # NoTexture
  THEN [index |-> newIndex, image |-> newIndex,
        aspect |-> PaintingAspect(newIndex),
        dispAspect |-> PaintingAspect(newIndex)]
  ELSE [index |-> newIndex, image |-> u_imageCurrent,
        aspect |-> u_imageAspect, dispAspect |-> dispImageAspect]

\* ------------------------------------------------------------------------
\* SceneController
\* ------------------------------------------------------------------------
\* a cycle that skips a painting
NextIndexSkip(cur) == (cur + 2) % totalPaintings

\* triggerNextPainting: next index in the cycle
NextIndex(cur) == (cur + 1) % totalPaintings

\* wash progress measured from the last activity instead of the wash start
WashProgressFromActivity(t) ==
  Min(((t - lastActivityTime) * FP) \div washDuration, FP)

\* wash progress measured from the previous frame
WashProgressFromFrame(t) ==
  Min(((t - lastFrameTime) * FP) \div washDuration, FP)

\* updateWashTransition: Math.min(elapsed / washDuration, 1)
WashProgressAt(t) == Min(((t - washStartTime) * FP) \div washDuration, FP)

\* an exit that only restarts the clock
exitIdleStateKeepsIdle == <<isIdle, now>>

\* exitIdleState: <<isIdle, lastActivityTime>> afterwards
exitIdleState == <<FALSE, now>>

\* onActivity: <<isIdle, lastActivityTime>> afterwards
\* (this.idleAmount is not a field: undefined > 0 is false)
onActivity == IF isIdle THEN exitIdleState ELSE <<isIdle, now>>

\* idle entry at exactly idleTimeout
EnterDueInclusive == (now - lastActivityTime) >= idleTimeout

\* idle poll: timeSinceActivity > this.idleTimeout
EnterDue == (now - lastActivityTime) > idleTimeout

\* a trigger that does not wait for sustained idleness
FireDueAlways(idleStart) == TRUE

\* idle poll: idleDuration > this.idleTimeout
FireDue(idleStart) == (now - idleStart) > idleTimeout

\* a poll that survives clearInterval
PollDueAfterClear == idleCheckInterval # Null /\ now >= nextPollTime

\* a poll that also runs where setupIdleDetection returned early
PollDueOnMobile == idleCheckInterval # "cleared" /\ now >= nextPollTime

\* a poll that is suspended with the frame callbacks
PollDueVisibleOnly ==
  idleCheckInterval = "interval" /\ now >= nextPollTime /\ ~hidden

\* the setInterval callback is due (hidden or not)
PollDue == idleCheckInterval = "interval" /\ now >= nextPollTime
FrameDue == rafReady > 0 /\ ~hidden
Constructed == lastOp # "constructor"

\* ------------------------------------------------------------------------
\* Section colours (first SceneController of scene-controller.ts)
\* ------------------------------------------------------------------------
\* hue2rgb of hslToRgb, on fixed-point p, q, t
hue2rgb(p, q, t) ==
  LET t1 == IF t < 0 THEN t + FP ELSE t
      t2 == IF t1 > FP THEN t1 - FP ELSE t1
  IN IF 6 * t2 < FP THEN p + DivT((q - p) * 6 * t2, FP)
     ELSE IF 2 * t2 < FP THEN q
     ELSE IF 3 * t2 < 2 * FP THEN p + DivT((q - p) * (4 * FP - 6 * t2), FP)
     ELSE p

\* hslToRgb(h, s, l): degrees and percentages to fixed-point r, g, b
hslToRgb(h, s, l) ==
  LET hN == (h * FP) \div 360
      sN == (s * FP) \div 100
      lN == (l * FP) \div 100
      q == IF 2 * lN < FP THEN DivT(lN * (FP + sN), FP)
           ELSE lN + sN - DivT(lN * sN, FP)
      p == 2 * lN - q
  IN IF sN = 0 THEN <<lN, lN, lN>>
     ELSE <<hue2rgb(p, q, hN + FP \div 3), hue2rgb(p, q, hN),
            hue2rgb(p, q, hN - FP \div 3)>>

\* sections the page can report; "unknown" has no entry in sectionColors
SectionIds == {"hero", "about", "experience", "unknown"}

\* getSectionColors(), with the || this.sectionColors.hero of setColors
sectionColors(id) ==
  CASE id = "about" ->
         [color1 |-> hslToRgb(30, 12, 88), color2 |-> hslToRgb(30, 15, 75)]
    [] id = "skills" ->
         [color1 |-> hslToRgb(220, 10, 85), color2 |-> hslToRgb(220, 15, 70)]
    [] id = "experience" ->
         [color1 |-> hslToRgb(250, 15, 88), color2 |-> hslToRgb(250, 20, 75)]
    [] id = "projects" ->
         [color1 |-> hslToRgb(140, 12, 85), color2 |-> hslToRgb(140, 18, 72)]
    [] OTHER ->
         [color1 |-> hslToRgb(210, 15, 90), color2 |-> hslToRgb(210, 20, 70)]

\* easeOutCubic: 1 - Math.pow(1 - t, 3)
easeOutCubic(t) == FP - DivT((FP - t) * (FP - t) * (FP - t), FP * FP)

\* a progress that is not capped at 1
ColorProgressUncapped(elapsed) == DivT(elapsed * FP, transitionDuration)

\* Math.min(elapsed / this.transitionDuration, 1)
ColorProgress(elapsed) == Min(DivT(elapsed * FP, transitionDuration), FP)

\* one colour moved towards its target
lerpColor(current, target, t) ==
  <<lerp(current[1], target[1], t), lerp(current[2], target[2], t),
    lerp(current[3], target[3], t)>>

\* ------------------------------------------------------------------------
\* Initial state: after new ThreeManager(...) and new SceneController(...)
\* ------------------------------------------------------------------------
Center == <<FP \div 2, FP \div 2>>

InitEnv ==
  /\ now = 0
  /\ window = InitialWindow
  /\ hidden = FALSE
  /\ netFails \in FailFamilies
  /\ nextPollTime = PollPeriod
  /\ rafPending = 0
  /\ rafReady = 0

InitController ==
  /\ mousePos = Center /\ targetMousePos = Center /\ prevMousePos = Center
  /\ isMouseActive = FALSE
  /\ moveIntensity = 0 /\ targetMoveIntensity = 0
  /\ isAnimating = FALSE /\ lastFrameTime = 0 /\ startTime = 0
  /\ lastActivityTime = 0 /\ isIdle = FALSE /\ idleStartTime = 0
  /\ idleCheckInterval = IF isMobile THEN Null ELSE "interval"
  /\ currentPaintingIndex = 0
  /\ isWashTransitioning = FALSE /\ washProgress = 0 /\ washStartTime = 0

InitThreeManager ==
  /\ isMobile \in BOOLEAN
  /\ resolution = ResolutionOf(InitialWindow)
  /\ paintingTextures = [i \in PaintingIdx |-> NoTexture]
  /\ loadsSettled = 0 /\ loadsDone = FALSE
  /\ tmPaintingIndex = 0
  /\ u_imageCurrent = PlaceholderImage /\ u_imageNext = PlaceholderImage
  /\ u_imageAspect = FP /\ u_imageAspectNext = FP
  /\ u_useImage = 1 /\ u_washProgress = 0 /\ u_washAngle = 0
  /\ noiseResolution = ResolutionOf(InitialWindow)
  /\ kuwaharaResolution = ResolutionOf(InitialWindow)
  /\ watercolorResolution = ResolutionOf(InitialWindow)
  /\ dispResolution = ResolutionOf(InitialWindow)
  /\ dispImageAspect = FP
  /\ dispMouse = Center /\ dispPrevMouse = Center
  /\ u_isActive = 0 /\ u_moveIntensity = 0 /\ u_time = 0
  /\ kuwaharaMouse = Center
  /\ currentDisplacementTarget = "A" /\ tPrevState = Null
  /\ displacementTargetA = {} /\ displacementTargetB = {}
  /\ kuwaharaDisplacement = Null /\ watercolorDisplacement = Null

InitHistory ==
  /\ lastOp = "constructor"
  /\ events = 0 /\ stepCount = 0 /\ renderCount = 0 /\ washCount = 0
  /\ lastSource = Null /\ lastTarget = Null /\ prevTarget = Null
  /\ lastReadTags = {} /\ lastStepTag = Null
  /\ mappingChangedBy = "none"
  /\ lastTriggerTime = -1 /\ prevTriggerTime = -1
  /\ lastCompleteTime = -1 /\ lastMoveTime = -1
  /\ lastMoveState = <<FALSE, FALSE>>
  /\ lastStepUniforms = [stage |-> "none"]
  /\ lastRenderUniforms = [stage |-> "none"]

SimIdle ==
  /\ simField = <<>> /\ simSteps = 0
  /\ simPrevField = <<>> /\ simUniforms = [stage |-> "none"]
  /\ shaderIn = [stage |-> "none"] /\ shaderOut = [stage |-> "none"]

\* the colour fields after the constructor's setColors('hero', true), and
\* the colour uniforms of createNoiseMaterial
InitColors ==
  /\ currentSection = "hero"
  /\ targetColors = sectionColors("hero")
  /\ currentColors = sectionColors("hero")
  /\ transitionProgress = 0 /\ transitionStartTime = 0
  /\ isTransitioning = FALSE
  /\ u_color1 = <<900, 900, 900>> /\ u_color2 = <<700, 700, 700>>
  /\ transitionStartColors = sectionColors("hero")
  /\ sectionChanges = 0

\* initProjectAccordion and initExperiencePanel have run: nothing is
\* expanded or pinned, the panel is hidden and no timer is pending
InitPage ==
  /\ expandedArticles = {}
  /\ pinnedItem = 0 /\ isHoveringAnyItem = FALSE /\ hideTimeout = Null
  /\ panelVisible = FALSE
  /\ expandedItems = {}

\* setup() has run on a page without reduced motion and with WebGL: both
\* objects exist and the page is revealed
SetupDone ==
  /\ prefersReducedMotion = FALSE /\ glContext = 2
  /\ threeManager = "created" /\ sceneController = "created"
  /\ canvasHidden = FALSE /\ initAttempts = 1
  /\ setupPhase = "revealed"
  /\ fontsReady = TRUE /\ firstFrame = 2 /\ firstFrameAt = 0
  /\ resizeListening = TRUE
  /\ InitColors
  /\ InitPage

Init ==
  /\ InitThreeManager
  /\ InitEnv
  /\ InitController
  /\ InitHistory
  /\ SimIdle
  /\ SetupDone

\* an updateWashProgress that leaves the uniform as it was
updateWashProgressStale(progress) == u_washProgress

\* ThreeManager.updateWashProgress(progress): u_washProgress afterwards
updateWashProgress(progress) == progress

\* an updateMouse without the mobile return
updateMouseUnguarded(p) == p

\* ThreeManager.updateMouse(x, y): the Kuwahara u_mouse afterwards
updateMouse(p) == IF isMobile THEN kuwaharaMouse ELSE p

\* an updateDisplacement without the mobile return
updateDisplacementUnguarded(p, isActive, intensity) ==
  [prevMouse |-> dispMouse, mouse |-> p,
   isActive |-> IF isActive THEN FP ELSE 0, moveIntensity |-> intensity]

\* ThreeManager.updateDisplacement(x, y, isActive, moveIntensity): the
\* displacement material's pointer uniforms afterwards
updateDisplacement(p, isActive, intensity) ==
  IF isMobile
  THEN [prevMouse |-> dispPrevMouse, mouse |-> dispMouse,
        isActive |-> u_isActive, moveIntensity |-> u_moveIntensity]
  ELSE [prevMouse |-> dispMouse, mouse |-> p,
        isActive |-> IF isActive THEN FP ELSE 0, moveIntensity |-> intensity]

\* ThreeManager.render(), the simulation pass reading the uniforms seen
render(seen) ==
  LET src == SourceOf(currentDisplacementTarget)
      tgt == TargetOf(currentDisplacementTarget)
      tag == <<seen.imageAspect, dispResolution>>
      out == DisplacementPass(BufferOf(src), seen.isActive, tag)
      flag2 == SwapTarget(currentDisplacementTarget)
  IN
  /\ IF RunsDisplacement
     THEN /\ tPrevState' = src
          /\ displacementTargetA' = IF tgt = "A" THEN out
                                    ELSE displacementTargetA
          /\ displacementTargetB' = IF tgt = "B" THEN out
                                    ELSE displacementTargetB
          /\ currentDisplacementTarget' = flag2
          /\ kuwaharaDisplacement' = getDisplacementTexture(flag2)
          /\ watercolorDisplacement' = getDisplacementTexture(flag2)
          /\ stepCount' = stepCount + 1
          /\ lastSource' = src /\ lastTarget' = tgt
          /\ prevTarget' = lastTarget
          /\ lastReadTags' = BufferOf(src) /\ lastStepTag' = tag
          /\ lastStepUniforms' = seen
     ELSE /\ kuwaharaDisplacement' = Placeholder
          /\ watercolorDisplacement' = Placeholder
          /\ UNCHANGED <<tPrevState, displacementTargetA,
                         displacementTargetB, currentDisplacementTarget,
                         stepCount, lastSource, lastTarget, prevTarget,
                         lastReadTags, lastStepTag, lastStepUniforms>>
  \* composer.render(): what the pipeline is rendered with
  /\ lastRenderUniforms' = [mouse |-> kuwaharaMouse',
                            washProgress |-> u_washProgress',
                            imageCurrent |-> u_imageCurrent',
                            tDisplacement |-> kuwaharaDisplacement',
                            steps |-> stepCount']
  /\ renderCount' = renderCount + 1


\* ------------------------------------------------------------------------
\* SceneController.update(): one frame
\* ------------------------------------------------------------------------
update ==
  LET mx == lerp(mousePos[1], targetMousePos[1], mouseLerp)
      my == lerp(mousePos[2], targetMousePos[2], mouseLerp)
      dx == mx - prevMousePos[1]
      dy == my - prevMousePos[2]
      moveSpeed == Isqrt(dx * dx + dy * dy)
      tgtI == Min(moveSpeed * SpeedGain, FP)
      newI == smoothIntensity(moveIntensity, tgtI)
      \* updateWashTransition / completeWashTransition
      washing == ~isMobile /\ isWashTransitioning
      prog == WashProgressAt(now)
      completes == washing /\ prog >= FP
      done == completePaintingTransition(currentPaintingIndex)
      aspectD == IF completes THEN done.dispAspect ELSE dispImageAspect
      \* updateDisplacement
      disp == updateDisplacement(<<mx, my>>, isMouseActive, newI)
      active == disp.isActive
      \* uniforms of the displacement material before and after the push
      before == [mouse |-> dispMouse, prevMouse |-> dispPrevMouse,
                 isActive |-> u_isActive, moveIntensity |-> u_moveIntensity,
                 time |-> u_time, imageAspect |-> dispImageAspect]
      pushed == [mouse |-> <<mx, my>>, prevMouse |-> dispMouse,
                 isActive |-> active, moveIntensity |-> newI,
                 time |-> now - startTime, imageAspect |-> aspectD]
      \* render(): renderDisplacementPass
      seen == UniformsAtStep(before, pushed)
  IN
  /\ lastFrameTime' = now
  /\ mousePos' = <<mx, my>>
  /\ targetMoveIntensity' = tgtI
  /\ moveIntensity' = newI
  /\ prevMousePos' = <<mx, my>>
  /\ isWashTransitioning' = IF completes THEN FALSE ELSE isWashTransitioning
  /\ washProgress' = IF completes THEN 0
                     ELSE IF washing THEN prog ELSE washProgress
  /\ u_washProgress' = IF completes THEN updateWashProgress(0)
                       ELSE IF washing THEN updateWashProgress(prog)
                       ELSE u_washProgress
  /\ tmPaintingIndex' = IF completes THEN done.index ELSE tmPaintingIndex
  /\ u_imageCurrent' = IF completes THEN done.image ELSE u_imageCurrent
  /\ u_imageAspect' = IF completes THEN done.aspect ELSE u_imageAspect
  /\ dispImageAspect' = aspectD
  /\ lastCompleteTime' = IF completes THEN now ELSE lastCompleteTime
  /\ mappingChangedBy' = IF completes /\ aspectD # dispImageAspect
                         THEN "complete" ELSE mappingChangedBy
  \* updateTime, updateMouse, updateDisplacement
  /\ u_time' = now - startTime
  /\ kuwaharaMouse' = updateMouse(<<mx, my>>)
  /\ dispPrevMouse' = disp.prevMouse
  /\ dispMouse' = disp.mouse
  /\ u_isActive' = disp.isActive
  /\ u_moveIntensity' = disp.moveIntensity
  /\ render(seen)
\* what update() leaves alone
updateFrame ==
  UNCHANGED <<now, window, hidden, netFails, nextPollTime,
              targetMousePos, isMouseActive, startTime, idleVars,
              currentPaintingIndex, washStartTime,
              paintingTextures, loadsSettled, loadsDone, u_imageNext,
              u_imageAspectNext, u_useImage, u_washAngle, resVars, simVars,
              events, washCount, lastTriggerTime, prevTriggerTime,
              lastMoveTime, lastMoveState>>

\* start(): first animate() runs synchronously
start ==
  /\ ~isAnimating
  /\ isAnimating' = TRUE
  /\ update
  /\ rafPending' = rafPending + 1
  /\ rafReady' = rafReady
  /\ lastOp' = "start"
  /\ updateFrame

\* start() called on the existing controller
Start ==
  /\ sceneController # Null
  /\ start
  /\ UNCHANGED <<bootVars, colorVars, pageVars>>

\* a callback that does not look at isAnimating
AnimateRunsAlways == TRUE

\* animate(): if (!this.isAnimating) return
AnimateRuns == isAnimating

\* animate(): the requestAnimationFrame callback
AnimateFrame ==
  /\ Constructed /\ sceneController # Null
  /\ FrameDue
  /\ rafReady' = rafReady - 1
  /\ IF AnimateRuns
     THEN /\ update
          /\ rafPending' = rafPending
          /\ updateFrame
          /\ UNCHANGED <<isAnimating, bootVars, colorVars, pageVars>>
     ELSE /\ rafPending' = rafPending - 1
          /\ UNCHANGED <<now, window, hidden, netFails, nextPollTime,
                         pointerVars, loopVars, idleVars, washVars,
                         imageVars, resVars, uniformVars, bufferVars,
                         simVars, events, stepCount, renderCount, washCount,
                         lastSource, lastTarget, prevTarget, lastReadTags,
                         lastStepTag, mappingChangedBy, lastTriggerTime,
                         prevTriggerTime, lastCompleteTime, lastMoveTime, lastMoveState,
                 orderVars, bootVars, colorVars, pageVars>>
  /\ lastOp' = "frame"

\* stop()
Stop ==
  /\ Constructed /\ sceneController # Null /\ events < MaxEvents
  /\ isAnimating
  /\ isAnimating' = FALSE
  /\ events' = events + 1
  /\ lastOp' = "stop"
  /\ UNCHANGED <<envVars, pointerVars, lastFrameTime, startTime, idleVars,
                 washVars, imageVars, resVars, uniformVars, bufferVars,
                 simVars, stepCount, renderCount, washCount, lastSource,
                 lastTarget, prevTarget, lastReadTags, lastStepTag,
                 mappingChangedBy, lastTriggerTime, prevTriggerTime,
                 lastCompleteTime, lastMoveTime, lastMoveState,
                 orderVars, bootVars, colorVars, pageVars>>

\* ------------------------------------------------------------------------
\* Idle detection and wash trigger
\* ------------------------------------------------------------------------
\* a trigger path that never sees a wash in flight
WashInFlightNever == FALSE

\* the test both trigger guards make: 'if (this.isWashTransitioning) return'
\* in triggerNextPainting and '!this.isWashTransitioning' in the poll
WashInFlight == isWashTransitioning

\* triggerNextPainting(), with the angle Math.random() yields
triggerNextPainting(angle) ==
  IF WashInFlight
  THEN UNCHANGED <<washVars, idleStartTime, u_imageNext, u_imageAspectNext,
                   u_washAngle, washCount, lastTriggerTime, prevTriggerTime>>
  ELSE LET nextIndex == NextIndex(currentPaintingIndex)
           prep == prepareNextPainting(nextIndex)
       IN /\ u_imageNext' = prep[1]
          /\ u_imageAspectNext' = prep[2]
          /\ u_washAngle' = angle
          /\ isWashTransitioning' = TRUE
          /\ washProgress' = 0
          /\ washStartTime' = now
          /\ currentPaintingIndex' = nextIndex
          /\ idleStartTime' = now
          /\ washCount' = washCount + 1
          /\ prevTriggerTime' = lastTriggerTime
          /\ lastTriggerTime' = now

\* the setInterval callback of setupIdleDetection
IdlePoll ==
  /\ Constructed /\ sceneController # Null
  /\ PollDue
  /\ nextPollTime' = now + PollPeriod
  /\ LET enter == EnterDue /\ ~isIdle
         idle1 == IF enter THEN TRUE ELSE isIdle
         start1 == IF enter THEN now ELSE idleStartTime
         fire == /\ idle1 /\ ~WashInFlight
                 /\ FireDue(start1)
     IN /\ isIdle' = idle1
        /\ IF fire
           THEN \E angle \in WashAngles : triggerNextPainting(angle)
           ELSE /\ idleStartTime' = start1
                /\ UNCHANGED <<washVars, u_imageNext, u_imageAspectNext,
                               u_washAngle, washCount, lastTriggerTime,
                               prevTriggerTime>>
  /\ lastOp' = "poll"
  /\ UNCHANGED <<now, window, hidden, netFails, rafPending, rafReady,
                 pointerVars, loopVars, lastActivityTime, idleCheckInterval,
                 paintingTextures, loadsSettled, loadsDone, tmPaintingIndex,
                 u_imageCurrent, u_imageAspect, u_useImage, u_washProgress,
                 dispImageAspect, resVars, uniformVars, bufferVars, simVars,
                 events, stepCount, renderCount, lastSource, lastTarget,
                 prevTarget, lastReadTags, lastStepTag, mappingChangedBy,
                 lastCompleteTime, lastMoveTime, lastMoveState,
                 orderVars, bootVars, colorVars, pageVars>>

\* ------------------------------------------------------------------------
\* Pointer events (listeners exist on desktop only)
\* ------------------------------------------------------------------------
\* updateMouse(e) with e.clientX, e.clientY = c
MouseMove(c) ==
  /\ Constructed /\ sceneController # Null /\ ~isMobile
  /\ events < MaxEvents
  /\ targetMousePos' = <<(c[1] * FP) \div window[1],
                         FP - ((c[2] * FP) \div window[2])>>
  /\ isMouseActive' = TRUE
  /\ isIdle' = onActivity[1]
  /\ lastActivityTime' = onActivity[2]
  /\ lastMoveTime' = now
  /\ lastMoveState' = <<isIdle, isWashTransitioning>>
  /\ events' = events + 1
  /\ lastOp' = "mousemove"
  /\ UNCHANGED <<envVars, mousePos, prevMousePos, moveIntensity,
                 targetMoveIntensity, loopVars, idleStartTime,
                 idleCheckInterval, washVars, imageVars, resVars,
                 uniformVars, bufferVars, simVars, stepCount, renderCount,
                 washCount, lastSource, lastTarget, prevTarget, lastReadTags,
                 lastStepTag, mappingChangedBy, lastTriggerTime,
                 prevTriggerTime, lastCompleteTime, orderVars, bootVars, colorVars, pageVars>>

\* document mouseenter / mouseleave
MouseEnterLeave(inside) ==
  /\ Constructed /\ sceneController # Null /\ ~isMobile
  /\ events < MaxEvents
  /\ isMouseActive # inside
  /\ isMouseActive' = inside
  /\ events' = events + 1
  /\ lastOp' = IF inside THEN "mouseenter" ELSE "mouseleave"
  /\ UNCHANGED <<envVars, mousePos, targetMousePos, prevMousePos,
                 moveIntensity, targetMoveIntensity, loopVars, idleVars,
                 washVars, imageVars, resVars, uniformVars, bufferVars,
                 simVars, stepCount, renderCount, washCount, lastSource,
                 lastTarget, prevTarget, lastReadTags, lastStepTag,
                 mappingChangedBy, lastTriggerTime, prevTriggerTime,
                 lastCompleteTime, lastMoveTime, lastMoveState,
                 orderVars, bootVars, colorVars, pageVars>>

\* ------------------------------------------------------------------------
\* Viewport and visibility
\* ------------------------------------------------------------------------
\* handleResize(): the listener is installed and a ThreeManager exists
ResizeHandled == resizeListening /\ threeManager # Null

\* window resize event followed by ThreeManager.resize()
Resize(w) ==
  /\ Constructed /\ events < MaxEvents
  /\ w # window
  /\ window' = w
  /\ IF ResizeHandled
     THEN /\ resolution' = ResolutionOf(w)
          /\ noiseResolution' = ResolutionOf(w)
          /\ kuwaharaResolution' = ResolutionOf(w)
          /\ watercolorResolution' = ResolutionOf(w)
          /\ dispResolution' = ResolutionOf(w)
          /\ mappingChangedBy' = IF ResolutionOf(w) # dispResolution
                                 THEN "resize" ELSE mappingChangedBy
     ELSE UNCHANGED <<resolution, noiseResolution, kuwaharaResolution,
                      watercolorResolution, dispResolution, mappingChangedBy>>
  /\ events' = events + 1
  /\ lastOp' = "resize"
  /\ UNCHANGED <<now, hidden, netFails, nextPollTime, rafPending, rafReady,
                 pointerVars, loopVars, idleVars, washVars, imageVars,
                 isMobile, uniformVars, bufferVars, simVars, stepCount,
                 renderCount, washCount, lastSource, lastTarget, prevTarget,
                 lastReadTags, lastStepTag, lastTriggerTime, prevTriggerTime,
                 lastCompleteTime, lastMoveTime, lastMoveState,
                 orderVars, bootVars, colorVars, pageVars>>

\* the document becomes hidden or visible: frame callbacks pause or resume
VisibilityChange ==
  /\ Constructed /\ events < MaxEvents
  /\ hidden' = ~hidden
  /\ events' = events + 1
  /\ lastOp' = "visibility"
  /\ UNCHANGED <<now, window, netFails, nextPollTime, rafPending, rafReady,
                 pointerVars, loopVars, idleVars, washVars, imageVars,
                 resVars, uniformVars, bufferVars, simVars, stepCount,
                 renderCount, washCount, lastSource, lastTarget, prevTarget,
                 lastReadTags, lastStepTag, mappingChangedBy,
                 lastTriggerTime, prevTriggerTime, lastCompleteTime,
                 lastMoveTime, lastMoveState,
                 orderVars, bootVars, colorVars, pageVars>>

\* ------------------------------------------------------------------------
\* Painting loads
\* ------------------------------------------------------------------------
\* loader.load callbacks of loadPaintings, for the next painting to settle
LoadSettle ==
  /\ Constructed /\ threeManager # Null /\ loadsSettled < totalPaintings
  /\ LET index == loadsSettled
         ok == index \notin netFails
         first == ok /\ index = 0
     IN /\ paintingTextures' = IF ok
                               THEN [paintingTextures EXCEPT ![index] = index]
                               ELSE paintingTextures
        /\ u_imageCurrent' = IF first THEN index ELSE u_imageCurrent
        /\ u_imageAspect' = IF first THEN PaintingAspect(index)
                            ELSE u_imageAspect
        /\ dispImageAspect' = IF first THEN PaintingAspect(index)
                              ELSE dispImageAspect
        /\ mappingChangedBy' = IF first /\ PaintingAspect(index) # dispImageAspect
                               THEN "load" ELSE mappingChangedBy
  /\ loadsSettled' = loadsSettled + 1
  /\ lastOp' = "load"
  /\ UNCHANGED <<envVars, pointerVars, loopVars, idleVars, washVars,
                 loadsDone, tmPaintingIndex, u_imageNext, u_imageAspectNext,
                 u_useImage, u_washProgress, u_washAngle, resVars,
                 uniformVars, bufferVars, simVars, events, stepCount,
                 renderCount, washCount, lastSource, lastTarget, prevTarget,
                 lastReadTags, lastStepTag, lastTriggerTime, prevTriggerTime,
                 lastCompleteTime, lastMoveTime, lastMoveState,
                 orderVars, bootVars, colorVars, pageVars>>

\* a fallback test that never fires
NoneLoadedNever == FALSE

\* !this.paintingTextures.some(t => t !== null)
NoneLoaded == \A i \in PaintingIdx : paintingTextures[i] = NoTexture

\* Promise.all(loadPromises).then(...)
LoadsThen ==
  /\ threeManager # Null
  /\ loadsSettled = totalPaintings /\ ~loadsDone
  /\ loadsDone' = TRUE
  /\ u_imageNext' = IF paintingTextures[1] # NoTexture THEN 1 ELSE u_imageNext
  /\ u_imageAspectNext' = IF paintingTextures[1] # NoTexture
                          THEN PaintingAspect(1) ELSE u_imageAspectNext
  /\ u_useImage' = IF NoneLoaded THEN 0 ELSE u_useImage
  /\ lastOp' = "loaded"
  /\ UNCHANGED <<envVars, pointerVars, loopVars, idleVars, washVars,
                 paintingTextures, loadsSettled, tmPaintingIndex,
                 u_imageCurrent, u_imageAspect, u_washProgress, u_washAngle,
                 dispImageAspect, resVars, uniformVars, bufferVars, simVars,
                 events, stepCount, renderCount, washCount, lastSource,
                 lastTarget, prevTarget, lastReadTags, lastStepTag,
                 mappingChangedBy, lastTriggerTime, prevTriggerTime,
                 lastCompleteTime, lastMoveTime, lastMoveState,
                 orderVars, bootVars, colorVars, pageVars>>

\* ------------------------------------------------------------------------
\* Passage of time: handlers that are due run before the clock moves on
\* ------------------------------------------------------------------------
TickTo(horizon) ==
  /\ Constructed /\ loadsDone
  /\ ~PollDue /\ ~FrameDue
  /\ now + TimeQuantum <= horizon
  /\ now' = now + TimeQuantum
  /\ rafReady' = rafPending
  /\ lastOp' = "tick"
  /\ UNCHANGED <<window, hidden, netFails, nextPollTime, rafPending,
                 pointerVars, loopVars, idleVars, washVars, imageVars,
                 resVars, uniformVars, bufferVars, simVars, events,
                 stepCount, renderCount, washCount, lastSource, lastTarget,
                 prevTarget, lastReadTags, lastStepTag, mappingChangedBy,
                 lastTriggerTime, prevTriggerTime, lastCompleteTime,
                 lastMoveTime, lastMoveState,
                 orderVars, bootVars, colorVars, pageVars>>

Tick == TickTo(MaxTime)

Next ==
  \/ Start
  \/ AnimateFrame
  \/ IdlePoll
  \/ \E c \in MoveTargets : MouseMove(c)
  \/ \E inside \in BOOLEAN : MouseEnterLeave(inside)
  \/ \E w \in ResizeInputs : Resize(w)
  \/ VisibilityChange
  \/ LoadSettle
  \/ LoadsThen
  \/ Tick

Spec == Init /\ [][Next]_vars

\* The painting cycle over a long horizon: a desktop page left alone apart
\* from pointer movement
TickCycle == TickTo(MaxCycleTime)

NextCycle ==
  \/ Start
  \/ AnimateFrame
  \/ IdlePoll
  \/ \E c \in MoveTargets : MouseMove(c)
  \/ LoadSettle
  \/ LoadsThen
  \/ TickCycle

SpecCycle == Init /\ [][NextCycle]_vars

\* The frame loop being stopped and started again, over a horizon that
\* holds one wash
TickStop == TickTo(MaxStopTime)

NextStop ==
  \/ Start
  \/ AnimateFrame
  \/ IdlePoll
  \/ Stop
  \/ LoadSettle
  \/ LoadsThen
  \/ TickStop

SpecStop == Init /\ [][NextStop]_vars

\* ------------------------------------------------------------------------
\* Disposal.  main.ts calls start() once, right after constructing the
\* controller; afterwards only dispose() ends the loop.
\* ------------------------------------------------------------------------
\* dispose(): stop(), then clearInterval on the poll's id if there is one;
\* the field keeps the id, the mouse listeners stay attached
Dispose ==
  /\ Constructed /\ sceneController # Null
  /\ isAnimating
  /\ isAnimating' = FALSE
  /\ idleCheckInterval' = IF idleCheckInterval # Null THEN "cleared"
                          ELSE idleCheckInterval
  /\ lastOp' = "dispose"
  /\ UNCHANGED <<envVars, pointerVars, lastFrameTime, startTime,
                 lastActivityTime, isIdle, idleStartTime,
                 washVars, imageVars, resVars, uniformVars, bufferVars,
                 simVars, events, stepCount, renderCount, washCount,
                 lastSource, lastTarget, prevTarget, lastReadTags,
                 lastStepTag, mappingChangedBy, lastTriggerTime,
                 prevTriggerTime, lastCompleteTime, lastMoveTime,
                 lastMoveState, orderVars, bootVars, colorVars, pageVars>>

NextDispose ==
  \/ (~Constructed /\ Start)
  \/ AnimateFrame
  \/ IdlePoll
  \/ \E c \in MoveTargets : MouseMove(c)
  \/ VisibilityChange
  \/ Dispose
  \/ LoadSettle
  \/ LoadsThen
  \/ Tick

SpecDispose == Init /\ [][NextDispose]_vars

\* ------------------------------------------------------------------------
\* Page setup (main.ts): Portfolio.setup(), initWebGL() and the loading
\* screen.  The fields of the two WebGL objects hold the values their
\* constructors give them; threeManager and sceneController say whether the
\* objects exist.
\* ------------------------------------------------------------------------
PageLoaded ==
  /\ InitPage
  /\ prefersReducedMotion \in BOOLEAN
  /\ glContext \in GlContexts
  /\ threeManager = Null /\ sceneController = Null
  /\ canvasHidden = FALSE /\ initAttempts = 0
  /\ setupPhase = "page"
  /\ fontsReady = FALSE /\ firstFrame = 0 /\ firstFrameAt = 0
  /\ resizeListening = FALSE
  /\ InitColors

InitBoot ==
  /\ InitThreeManager
  /\ InitEnv
  /\ InitController
  /\ InitHistory
  /\ SimIdle
  /\ PageLoaded
  /\ ~isMobile

\* a setup that builds the WebGL background whatever the motion preference
InitWebGLRunsAlways == TRUE

\* if (!this.loadingManager.prefersReducedMotion) this.initWebGL()
InitWebGLRuns == ~prefersReducedMotion

\* an initWebGL without the webglVersion === 0 return
CoreStartsUnchecked == glContext # GlThrows

\* initWebGL reaches new SceneController(...) and start(): the renderer
\* constructor did not throw and a WebGL context was found
CoreStarts == glContext # GlThrows /\ glContext # 0

\* setup() up to its first await: new LoadingManager(), initWebGL() or the
\* hidden canvas, and the start of waitForAssets
Setup ==
  /\ setupPhase = "page"
  /\ setupPhase' = "waiting"
  /\ firstFrameAt' = now
  /\ UNCHANGED <<prefersReducedMotion, glContext, fontsReady, firstFrame,
                 resizeListening, colorVars, pageVars>>
  /\ initAttempts' = IF InitWebGLRuns THEN initAttempts + 1 ELSE initAttempts
  /\ threeManager' = IF InitWebGLRuns /\ glContext # GlThrows
                     THEN "created" ELSE Null
  /\ sceneController' = IF InitWebGLRuns /\ CoreStarts
                        THEN "created" ELSE Null
  /\ canvasHidden' = ~(InitWebGLRuns /\ CoreStarts)
  /\ IF InitWebGLRuns /\ CoreStarts
     THEN start
     ELSE /\ lastOp' = "setup"
          /\ UNCHANGED <<envVars, pointerVars, loopVars, idleVars, washVars,
                         imageVars, resVars, uniformVars, bufferVars, simVars,
                         events, stepCount, renderCount, washCount,
                         lastSource, lastTarget, prevTarget, lastReadTags,
                         lastStepTag, mappingChangedBy, lastTriggerTime,
                         prevTriggerTime, lastCompleteTime, lastMoveTime,
                         lastMoveState, orderVars>>

\* everything of the page but bootVars and lastOp
coreVars == <<envVars, pointerVars, loopVars, idleVars, washVars, imageVars,
              resVars, uniformVars, bufferVars, simVars, events, stepCount,
              renderCount, washCount, lastSource, lastTarget, prevTarget,
              lastReadTags, lastStepTag, mappingChangedBy, lastTriggerTime,
              prevTriggerTime, lastCompleteTime, lastMoveTime, lastMoveState,
              orderVars, colorVars, pageVars>>

\* document.fonts.ready resolves
FontsReady ==
  /\ setupPhase = "waiting" /\ ~fontsReady
  /\ fontsReady' = TRUE
  /\ lastOp' = "fonts"
  /\ UNCHANGED <<coreVars, prefersReducedMotion, glContext, threeManager,
                 sceneController, canvasHidden, initAttempts, setupPhase,
                 firstFrame, firstFrameAt, resizeListening>>

\* a frame callback of waitForFirstFrame is due
FirstFrameDue ==
  /\ setupPhase = "waiting" /\ firstFrame < 2
  /\ now > firstFrameAt /\ ~hidden

\* waitForFirstFrame: the outer callback requests the inner one, the inner
\* one resolves
FirstFrame ==
  /\ FirstFrameDue
  /\ firstFrame' = firstFrame + 1
  /\ firstFrameAt' = now
  /\ lastOp' = "firstFrame"
  /\ UNCHANGED <<coreVars, prefersReducedMotion, glContext, threeManager,
                 sceneController, canvasHidden, initAttempts, setupPhase,
                 fontsReady, resizeListening>>

\* threeManager.imageLoaded: ThreeManager has no such field, the value
\* pushed is undefined and Promise.all takes it as settled
ImagePromiseSettled == TRUE

\* Promise.all(promises) has resolved
AssetsReady == fontsReady /\ firstFrame = 2 /\ ImagePromiseSettled

\* a loading screen without the timeout branch
TimeoutDueNever == FALSE

\* timeoutPromise(): setTimeout(resolve, this.timeout) has fired
TimeoutDue == now >= loadTimeout

\* the Promise.race of waitForAssets is settled
RaceDue == setupPhase = "waiting" /\ (AssetsReady \/ TimeoutDue)

\* ensureMinDisplayTime must wait: remaining > 0 && !prefersReducedMotion
MustWait == minDisplayTime - now > 0 /\ ~prefersReducedMotion

\* reveal(), the UI initialisation and the resize listener of setup()
Reveal ==
  /\ setupPhase' = "revealed"
  /\ resizeListening' = TRUE

\* the race of waitForAssets settles; ensureMinDisplayTime follows
RaceSettles ==
  /\ RaceDue
  /\ IF MustWait
     THEN setupPhase' = "minDisplay" /\ UNCHANGED resizeListening
     ELSE Reveal
  /\ lastOp' = "race"
  /\ UNCHANGED <<coreVars, prefersReducedMotion, glContext, threeManager,
                 sceneController, canvasHidden, initAttempts, fontsReady,
                 firstFrame, firstFrameAt>>

\* the setTimeout of ensureMinDisplayTime has fired
MinDisplayDue == setupPhase = "minDisplay" /\ now >= minDisplayTime

MinDisplayDone ==
  /\ MinDisplayDue
  /\ Reveal
  /\ lastOp' = "minDisplay"
  /\ UNCHANGED <<coreVars, prefersReducedMotion, glContext, threeManager,
                 sceneController, canvasHidden, initAttempts, fontsReady,
                 firstFrame, firstFrameAt>>

\* the clock steps finely until the minimum display time has passed or
\* the page is revealed, coarsely afterwards
BootStep ==
  IF now < minDisplayTime /\ setupPhase # "revealed"
  THEN LoadQuantum ELSE TimeQuantum

\* time passes on the page being set up; painting loads may still be
\* pending
TickBoot ==
  /\ Constructed
  /\ ~RaceDue /\ ~MinDisplayDue /\ ~FirstFrameDue
  /\ sceneController # Null => (~PollDue /\ ~FrameDue)
  /\ now + BootStep <= MaxBootTime
  /\ now' = now + BootStep
  /\ rafReady' = rafPending
  /\ lastOp' = "tick"
  /\ UNCHANGED <<window, hidden, netFails, nextPollTime, rafPending,
                 pointerVars, loopVars, idleVars, washVars, imageVars,
                 resVars, uniformVars, bufferVars, simVars, events,
                 stepCount, renderCount, washCount, lastSource, lastTarget,
                 prevTarget, lastReadTags, lastStepTag, mappingChangedBy,
                 lastTriggerTime, prevTriggerTime, lastCompleteTime,
                 lastMoveTime, lastMoveState, orderVars, bootVars, colorVars, pageVars>>

NextBoot ==
  \/ Setup
  \/ FontsReady
  \/ FirstFrame
  \/ RaceSettles
  \/ MinDisplayDone
  \/ AnimateFrame
  \/ IdlePoll
  \/ \E inside \in BOOLEAN : MouseEnterLeave(inside)
  \/ \E w \in ResizeInputs : Resize(w)
  \/ VisibilityChange
  \/ LoadSettle
  \/ LoadsThen
  \/ TickBoot

SpecBoot == InitBoot /\ [][NextBoot]_vars

\* The loading screen on a page nobody touches: the tab may be hidden or
\* shown, fonts and paintings arrive or not
NextLoad ==
  \/ Setup
  \/ FontsReady
  \/ FirstFrame
  \/ RaceSettles
  \/ MinDisplayDone
  \/ AnimateFrame
  \/ IdlePoll
  \/ VisibilityChange
  \/ LoadSettle
  \/ LoadsThen
  \/ TickBoot

\* timers, promise reactions and due frame callbacks are run by the event
\* loop whenever they stay due
SpecBootFair ==
  /\ InitBoot /\ [][NextLoad]_vars
  /\ WF_vars(Setup)
  /\ WF_vars(FirstFrame)
  /\ WF_vars(RaceSettles)
  /\ WF_vars(MinDisplayDone)
  /\ WF_vars(AnimateFrame)
  /\ WF_vars(IdlePoll)
  /\ WF_vars(TickBoot)

\* ------------------------------------------------------------------------
\* Section colour transitions: the controller whose update() interpolates
\* the colour pair, driven by the intersection observer
\* ------------------------------------------------------------------------
\* setColors(sectionId) with immediate = false
setColors(sectionId) ==
  /\ targetColors' = sectionColors(sectionId)
  /\ isTransitioning' = TRUE
  /\ transitionStartTime' = now
  /\ transitionProgress' = 0
  /\ transitionStartColors' = currentColors
  /\ UNCHANGED <<currentColors, u_color1, u_color2>>

\* changeSection(sectionId), called by the intersection observer
changeSection(sectionId) ==
  /\ Constructed /\ sceneController # Null
  /\ sectionChanges < MaxSectionChanges
  /\ sectionChanges' = sectionChanges + 1
  /\ IF sectionId = currentSection /\ ~isTransitioning
     THEN UNCHANGED <<currentSection, targetColors, currentColors,
                      transitionProgress, transitionStartTime,
                      isTransitioning, u_color1, u_color2,
                      transitionStartColors>>
     ELSE /\ currentSection' = sectionId
          /\ setColors(sectionId)
  /\ lastOp' = "section"
  /\ UNCHANGED <<envVars, pointerVars, loopVars, idleVars, washVars,
                 imageVars, resVars, uniformVars, bufferVars, simVars,
                 events, stepCount, renderCount, washCount, lastSource,
                 lastTarget, prevTarget, lastReadTags, lastStepTag,
                 mappingChangedBy, lastTriggerTime, prevTriggerTime,
                 lastCompleteTime, lastMoveTime, lastMoveState, orderVars,
                 bootVars, pageVars>>

\* the colour part of update() and the updateColorTransition push that follows it
updateColorTransition ==
  LET progress == ColorProgress(now - transitionStartTime)
      t == easeOutCubic(progress)
      color1 == IF isTransitioning
                THEN lerpColor(currentColors.color1, targetColors.color1, t)
                ELSE currentColors.color1
      color2 == IF isTransitioning
                THEN lerpColor(currentColors.color2, targetColors.color2, t)
                ELSE currentColors.color2
  IN /\ transitionProgress' = IF isTransitioning THEN progress
                              ELSE transitionProgress
     /\ currentColors' = [color1 |-> color1, color2 |-> color2]
     /\ isTransitioning' = (isTransitioning /\ progress < FP)
     /\ u_color1' = color1
     /\ u_color2' = color2
     /\ UNCHANGED <<currentSection, targetColors, transitionStartTime,
                    transitionStartColors, sectionChanges>>

\* start() of the colour controller: the first update() pushes the colours
ColorStart ==
  /\ sceneController # Null
  /\ start
  /\ updateColorTransition
  /\ UNCHANGED <<bootVars, pageVars>>

\* a frame callback of the colour controller
ColorFrame ==
  /\ Constructed /\ sceneController # Null
  /\ FrameDue
  /\ rafReady' = rafReady - 1
  /\ IF AnimateRuns
     THEN /\ update
          /\ rafPending' = rafPending
          /\ updateFrame
          /\ updateColorTransition
          /\ UNCHANGED <<isAnimating, bootVars, pageVars>>
     ELSE /\ rafPending' = rafPending - 1
          /\ UNCHANGED <<now, window, hidden, netFails, nextPollTime,
                         pointerVars, loopVars, idleVars, washVars,
                         imageVars, resVars, uniformVars, bufferVars,
                         simVars, events, stepCount, renderCount, washCount,
                         lastSource, lastTarget, prevTarget, lastReadTags,
                         lastStepTag, mappingChangedBy, lastTriggerTime,
                         prevTriggerTime, lastCompleteTime, lastMoveTime,
                         lastMoveState, orderVars, bootVars, colorVars, pageVars>>
  /\ lastOp' = "frame"

\* time passes between frames
TickColor ==
  /\ Constructed
  /\ ~FrameDue
  /\ now + ColorQuantum <= MaxColorTime
  /\ now' = now + ColorQuantum
  /\ rafReady' = rafPending
  /\ lastOp' = "tick"
  /\ UNCHANGED <<window, hidden, netFails, nextPollTime, rafPending,
                 pointerVars, loopVars, idleVars, washVars, imageVars,
                 resVars, uniformVars, bufferVars, simVars, events,
                 stepCount, renderCount, washCount, lastSource, lastTarget,
                 prevTarget, lastReadTags, lastStepTag, mappingChangedBy,
                 lastTriggerTime, prevTriggerTime, lastCompleteTime,
                 lastMoveTime, lastMoveState, orderVars, bootVars,
                 colorVars, pageVars>>

NextColor ==
  \/ ColorStart
  \/ ColorFrame
  \/ \E sectionId \in SectionIds : changeSection(sectionId)
  \/ VisibilityChange
  \/ Stop
  \/ TickColor

\* a desktop page whose paintings are left out of the picture
InitColor == Init /\ ~isMobile /\ netFails = {}

SpecColor == InitColor /\ [][NextColor]_vars

\* ------------------------------------------------------------------------
\* ThreeManager driven directly through its pointer methods and render(),
\* with arguments of the caller's choice
\* ------------------------------------------------------------------------
\* everything the pointer methods and render() leave alone
managerFrame ==
  UNCHANGED <<envVars, pointerVars, loopVars, idleVars, washVars, imageVars,
              resVars, u_time, simVars, events, washCount, mappingChangedBy,
              lastTriggerTime, prevTriggerTime, lastCompleteTime,
              lastMoveTime, lastMoveState, bootVars, colorVars, pageVars>>

\* threeManager.updateMouse(x, y)
CallUpdateMouse(p) ==
  /\ kuwaharaMouse' = updateMouse(p)
  /\ lastOp' = "updateMouse"
  /\ managerFrame
  /\ UNCHANGED <<dispMouse, dispPrevMouse, u_isActive, u_moveIntensity,
                 bufferVars, stepCount, renderCount, lastSource, lastTarget,
                 prevTarget, lastReadTags, lastStepTag, orderVars>>

\* threeManager.updateDisplacement(x, y, isActive, moveIntensity)
CallUpdateDisplacement(p, isActive, intensity) ==
  LET disp == updateDisplacement(p, isActive, intensity)
  IN /\ dispPrevMouse' = disp.prevMouse
     /\ dispMouse' = disp.mouse
     /\ u_isActive' = disp.isActive
     /\ u_moveIntensity' = disp.moveIntensity
     /\ lastOp' = "updateDisplacement"
     /\ managerFrame
     /\ UNCHANGED <<kuwaharaMouse, bufferVars, stepCount, renderCount,
                    lastSource, lastTarget, prevTarget, lastReadTags,
                    lastStepTag, orderVars>>

\* threeManager.render()
CallRender ==
  /\ renderCount < MaxRenders
  /\ managerFrame
  /\ UNCHANGED <<dispMouse, dispPrevMouse, u_isActive, u_moveIntensity,
                 kuwaharaMouse>>
  /\ render([mouse |-> dispMouse, prevMouse |-> dispPrevMouse,
             isActive |-> u_isActive, moveIntensity |-> u_moveIntensity,
             time |-> u_time, imageAspect |-> dispImageAspect])
  /\ lastOp' = "render"

NextManager ==
  \/ \E p \in {Center, <<900, 100>>} : CallUpdateMouse(p)
  \/ \E p \in {Center, <<900, 100>>}, isActive \in BOOLEAN,
        intensity \in {0, 600} :
       CallUpdateDisplacement(p, isActive, intensity)
  \/ CallRender

\* a renderer whose paintings are left out of the picture
InitManager == Init /\ netFails = {}

SpecManager == InitManager /\ [][NextManager]_vars

\* ------------------------------------------------------------------------
\* Displacement shader (shaders/displacement.ts) on a GridW x GridH field.
\* A field maps each cell <<i, j>> to <<height, velocity>>.
\* ------------------------------------------------------------------------
GridW == 3
GridH == 3
MaxSimSteps == 2

Cells == (0 .. (GridW - 1)) \X (0 .. (GridH - 1))

\* GLSL built-ins
Clamp(x, lo, hi) == IF x < lo THEN lo ELSE IF x > hi THEN hi ELSE x
Mix(x, y, a) == DivT(x * (FP - a) + y * a, FP)
Smoothstep(e0, e1, x) ==
  The({DivT(DivT(t * t, FP) * (3 * FP - 2 * t), FP)
       : t \in {Clamp(DivT((x - e0) * FP, e1 - e0), 0, FP)}})

\* cos and sin at multiples of pi/8
CosTable == <<1000, 924, 707, 383, 0, -383, -707, -924,
              -1000, -924, -707, -383, 0, 383, 707, 924>>
Cos8(k) == CosTable[(k % 16) + 1]
Sin8(k) == CosTable[((k + 12) % 16) + 1]

\* rot = u_time * 1.5, in steps of pi/8
RotSteps(time) == (((time * 3) \div 2) * 8) \div 3142

\* texture2D(tPrevState, .) with LinearFilter and clamp-to-edge; x and y are
\* texel coordinates scaled by FP, cell <<i, j>> being centred at i*FP, j*FP
Texel(field, i, j) ==
  field[<<Clamp(i, 0, GridW - 1), Clamp(j, 0, GridH - 1)>>]
Bilinear(field, i0, j0, fx, fy) ==
  Mix(Mix(Texel(field, i0, j0)[1], Texel(field, i0 + 1, j0)[1], fx),
      Mix(Texel(field, i0, j0 + 1)[1], Texel(field, i0 + 1, j0 + 1)[1], fx),
      fy)
SampleHeight(field, x, y) ==
  The({Bilinear(field, q[1] \div FP, q[2] \div FP, q[1] % FP, q[2] % FP)
       : q \in {<<x, y>>}})

\* the i-th sample of the rotating ring of radius sampleRadius = 2 texels
RingSample(field, c, i, rot) ==
  SampleHeight(field, c[1] * FP + 2 * Cos8(2 * i + rot),
                      c[2] * FP + 2 * Sin8(2 * i + rot))

SetMin(S) == CHOOSE x \in S : \A y \in S : x <= y
SetMax(S) == CHOOSE x \in S : \A y \in S : x >= y

\* the eight samples of the ring around cell c
RingSamples(field, c, rot) == {RingSample(field, c, i, rot) : i \in 0 .. 7}

\* a fold that starts minNeighbor at -1.0, like maxNeighbor
RingMinSeededLow(samples) == SetMin({-FP} \cup samples)

\* the ring samples folded from minNeighbor = 0.0
RingMin(samples) == SetMin({0} \cup samples)

\* the ring samples folded from maxNeighbor = -1.0
RingMax(samples) == SetMax({-FP} \cup samples)

\* getImageUV: the scale it computes
ImageScale(res, imageAspect) ==
  LET screenAspect == DivT(res[1] * FP, res[2])
  IN IF screenAspect > imageAspect
     THEN <<FP, Max(DivT(imageAspect * FP, screenAspect), 800)>>
     ELSE <<DivT(screenAspect * FP, imageAspect), FP>>

\* getImageUV: uv * scale + offset
getImageUV(uv, res, imageAspect) ==
  LET screenAspect == DivT(res[1] * FP, res[2])
      scale == ImageScale(res, imageAspect)
      offset == IF screenAspect > imageAspect THEN <<0, 0>>
                ELSE <<DivT(FP - scale[1], 2), 0>>
  IN <<DivT(uv[1] * scale[1], FP) + offset[1],
       DivT(uv[2] * scale[2], FP) + offset[2]>>

\* vUv of a cell centre
CellUV(c) == <<((2 * c[1] + 1) * FP) \div (2 * GridW),
               ((2 * c[2] + 1) * FP) \div (2 * GridH)>>

\* aspect-corrected distance from a cell to the pointer
BrushDistance(c, p) ==
  LET scale == ImageScale(p.resolution, p.imageAspect)
      imageUV == getImageUV(CellUV(c), p.resolution, p.imageAspect)
      imageMouse == getImageUV(p.mouse, p.resolution, p.imageAspect)
      screenAspect == DivT(p.resolution[1] * FP, p.resolution[2])
      deltaX == DivT((imageUV[1] - imageMouse[1]) * FP, scale[1])
      deltaY == DivT((imageUV[2] - imageMouse[2]) * FP, scale[2])
      cx == DivT(deltaX * screenAspect, FP)
  IN Isqrt(cx * cx + deltaY * deltaY)

\* a clamp that forgets the velocity channel
ClampStateHeightOnly(hv) == <<Clamp(hv[1], -FP, 0), hv[2]>>

\* the final clamp of main()
ClampState(hv) == <<Clamp(hv[1], -FP, 0), Clamp(hv[2], -200, 200)>>

\* main(): the samples of the previous field around cell c:
\* <<minNeighbor, maxNeighbor, left + right + up + down>>
Neighbourhood(field, c, p) ==
  The({<<RingMin(ring), RingMax(ring),
         SampleHeight(field, (c[1] - 1) * FP, c[2] * FP)
           + SampleHeight(field, (c[1] + 1) * FP, c[2] * FP)
           + SampleHeight(field, c[1] * FP, (c[2] + 1) * FP)
           + SampleHeight(field, c[1] * FP, (c[2] - 1) * FP)>>
       : ring \in {RingSamples(field, c, RotSteps(p.time))}})

\* main(): wave equation with damping
WaveStage(hv, nb, p) ==
  LET laplacian == nb[3] - 4 * hv[1]
      velocity == DivT((hv[2] + DivT(laplacian * p.waveSpeed, FP))
                       * p.waveDamping, FP)
  IN <<hv[1] + DivT(velocity * 200, FP), velocity>>

\* main(): expansion toward the lowest neighbour
ExpandStage(hv, nb, p) ==
  IF nb[1] < -150 /\ nb[1] < hv[1]
  THEN <<Mix(hv[1], DivT(nb[1] * 920, FP),
             DivT(p.expandRate * p.moveIntensity, FP)), hv[2]>>
  ELSE hv

\* main(): collapse toward the highest neighbour
CollapseStage(hv, nb, p) ==
  IF nb[2] > hv[1] THEN <<Mix(hv[1], nb[2], p.fillRate), hv[2]>> ELSE hv

\* main(): velocity decay as the system settles
DecayStage(hv) == IF hv[1] > -150 THEN <<hv[1], DivT(hv[2] * 850, FP)>> ELSE hv

\* main(): brush strength at cell c
Brush(c, p) ==
  IF p.isActive > 500
  THEN FP - Smoothstep(p.brushSize - 15, p.brushSize + 15, BrushDistance(c, p))
  ELSE 0

\* an injection that forces the height only
InjectStageHeightOnly(hv, brush) ==
  IF brush > 0 THEN <<Mix(hv[1], -FP, brush), hv[2]>> ELSE hv

\* main(): pointer injection
InjectStage(hv, brush) ==
  IF brush > 0 THEN <<Mix(hv[1], -FP, brush), Mix(hv[2], 0, brush)>> ELSE hv

\* main(): the value written for cell c, from the previous field and the
\* uniforms p; each stage is evaluated once and handed to the next
StepCell(field, c, p) ==
  The({ The({ The({ The({ The({ The({
    ClampState(InjectStage(hv4, brush))
      : brush \in {Brush(c, p)} })
      : hv4 \in {DecayStage(hv3)} })
      : hv3 \in {CollapseStage(hv2, nb, p)} })
      : hv2 \in {ExpandStage(hv1, nb, p)} })
      : hv1 \in {WaveStage(field[c], nb, p)} })
      : nb \in {Neighbourhood(field, c, p)} })

\* main(): the state of cell c as it reaches the pointer injection
BeforeInjection(field, c, p) ==
  The({ The({ The({ The({ DecayStage(hv3)
      : hv3 \in {CollapseStage(hv2, nb, p)} })
      : hv2 \in {ExpandStage(hv1, nb, p)} })
      : hv1 \in {WaveStage(field[c], nb, p)} })
      : nb \in {Neighbourhood(field, c, p)} })

\* one render of the displacement scene: every cell of the target
StepField(field, p) == [c \in Cells |-> StepCell(field, c, p)]

\* Inputs of the simulation
SimHeights == {-1500, -1000, -400, 0, 700}
SimVelocities == {-500, 0, 500}
DefaultUniforms ==
  [brushSize |-> 35, expandRate |-> 400, fillRate |-> 80, waveSpeed |-> 200,
   waveDamping |-> 950]
SimProfiles ==
  { DefaultUniforms,
    [brushSize |-> 400, expandRate |-> 3000, fillRate |-> 2000,
     waveSpeed |-> 5000, waveDamping |-> 1500],
    [brushSize |-> 35, expandRate |-> -2000, fillRate |-> -1000,
     waveSpeed |-> -3000, waveDamping |-> -1200],
    [brushSize |-> 0, expandRate |-> 0, fillRate |-> 0,
     waveSpeed |-> 0, waveDamping |-> 1000] }
SimPointers == {<<0, <<500, 500>>>>, <<FP, <<500, 500>>>>, <<FP, <<0, 1000>>>>}
\* <<u_moveIntensity, u_time, u_resolution>> of a frame
SimFrames == {<<0, 0, <<1600, 900>>>>, <<FP, 262, <<900, 1200>>>>}

Uniforms(profile, pointer, frame) ==
  [brushSize |-> profile.brushSize, expandRate |-> profile.expandRate,
   fillRate |-> profile.fillRate, waveSpeed |-> profile.waveSpeed,
   waveDamping |-> profile.waveDamping, isActive |-> pointer[1],
   mouse |-> pointer[2], moveIntensity |-> frame[1], time |-> frame[2],
   resolution |-> frame[3], imageAspect |-> AspectChoices[1]]

\* a previous state holding any value: uniform fields and single-cell spikes
SimInitialFields ==
  { [c \in Cells |-> <<h, v>>] : h \in SimHeights, v \in SimVelocities }
  \cup { [c \in Cells |-> IF c = <<1, 1>> THEN <<h, v>> ELSE <<0, 0>>] :
         h \in SimHeights, v \in SimVelocities }

InitSim ==
  /\ InitThreeManager /\ isMobile = FALSE
  /\ InitEnv /\ netFails = {}
  /\ InitController
  /\ InitHistory
  /\ SetupDone
  /\ simField \in SimInitialFields
  /\ simSteps = 0
  /\ simPrevField = <<>> /\ simUniforms = [stage |-> "none"]
  /\ shaderIn = [stage |-> "none"] /\ shaderOut = [stage |-> "none"]

\* renderer.render(displacementScene) into the other buffer
SimStep ==
  /\ simSteps < MaxSimSteps
  /\ \E profile \in SimProfiles, pointer \in SimPointers,
        frame \in SimFrames :
       simField' = StepField(simField, Uniforms(profile, pointer, frame))
  /\ simSteps' = simSteps + 1
  /\ UNCHANGED <<simPrevField, simUniforms, shaderIn, shaderOut>>
  /\ UNCHANGED <<envVars, pointerVars, loopVars, idleVars, washVars,
                 imageVars, resVars, uniformVars, bufferVars, histVars,
                 orderVars, bootVars, colorVars, pageVars>>

NextSim == SimStep

SpecSim == InitSim /\ [][NextSim]_vars

\* One simulation step from any previous field, with the field it read and
\* the uniforms it ran with kept for inspection
BrushStep ==
  /\ simSteps = 0
  /\ \E profile \in SimProfiles, frame \in SimFrames,
        pointer \in SimPointers \cup {<<FP, <<167, 500>>>>,
                                      <<FP, <<400, 600>>>>} :
       /\ simUniforms' = Uniforms(profile, pointer, frame)
       /\ simField' = StepField(simField, Uniforms(profile, pointer, frame))
  /\ simPrevField' = simField
  /\ simSteps' = 1
  /\ UNCHANGED <<shaderIn, shaderOut>>
  /\ UNCHANGED <<envVars, pointerVars, loopVars, idleVars, washVars,
                 imageVars, resVars, uniformVars, bufferVars, histVars,
                 orderVars, bootVars, colorVars, pageVars>>

NextBrush == BrushStep

SpecBrush == InitSim /\ [][NextBrush]_vars

\* ========================================================================
\* Composition shaders: one fragment through Stage B (Kuwahara pass) and
\* Stage C (watercolour enhancement pass)
\* ========================================================================
FilterShades == 3
HeightSteps == 20

\* uniforms of createKuwaharaPass and createWatercolorPass
u_revealRadius == 150
u_revealSoftness == 100
u_brightness == 1400
u_edgeDarkness == 400
u_paperStrength == 450
u_saturation == 1500
u_edgeDarkening == 400
u_vignetteStrength == 250
u_contrast == 1100

\* colours are rgb triples in fixed point
Scale3(c, k) == <<DivT(c[1] * k, FP), DivT(c[2] * k, FP), DivT(c[3] * k, FP)>>
Mix3(x, y, a) == <<Mix(x[1], y[1], a), Mix(x[2], y[2], a), Mix(x[3], y[3], a)>>
Luminance(c) == DivT(299 * c[1] + 587 * c[2] + 114 * c[3], FP)

\* the offsets qDir * vec2(x, y) * r * 0.33 * texel of kuwaharaFilter, as
\* multiples of the sample step r * 0.33 texels
Lattice == (-2 .. 2) \X (-2 .. 2)

\* colors[q] = sum / 9.0, sum being the nine samples s of quadrant q added up
QuadrantMeanOfEight(samples, q) ==
  LET qDir == IF q = 0 THEN <<-1, 1>> ELSE IF q = 1 THEN <<1, 1>>
              ELSE IF q = 2 THEN <<-1, -1>> ELSE <<1, -1>>
      s(k, ch) == samples[<<qDir[1] * (k % 3), qDir[2] * (k \div 3)>>][ch]
      sum(ch) == s(0, ch) + s(1, ch) + s(2, ch) + s(3, ch) + s(4, ch)
                   + s(5, ch) + s(6, ch) + s(7, ch) + s(8, ch)
  IN <<DivT(sum(1), 8), DivT(sum(2), 8), DivT(sum(3), 8)>>

QuadrantMean(samples, q) ==
  LET qDir == IF q = 0 THEN <<-1, 1>> ELSE IF q = 1 THEN <<1, 1>>
              ELSE IF q = 2 THEN <<-1, -1>> ELSE <<1, -1>>
      s(k, ch) == samples[<<qDir[1] * (k % 3), qDir[2] * (k \div 3)>>][ch]
      sum(ch) == s(0, ch) + s(1, ch) + s(2, ch) + s(3, ch) + s(4, ch)
                   + s(5, ch) + s(6, ch) + s(7, ch) + s(8, ch)
  IN <<DivT(sum(1), 9), DivT(sum(2), 9), DivT(sum(3), 9)>>

\* v3 = sumSq / 9.0 - colors[q] * colors[q] per channel, in units of
\* FP * FP, and vars[q] = dot(max(v3, 0), (0.299, 0.587, 0.114))
QuadrantVariance(samples, q) ==
  LET qDir == IF q = 0 THEN <<-1, 1>> ELSE IF q = 1 THEN <<1, 1>>
              ELSE IF q = 2 THEN <<-1, -1>> ELSE <<1, -1>>
      s(k, ch) == samples[<<qDir[1] * (k % 3), qDir[2] * (k \div 3)>>][ch]
      sq(k, ch) == s(k, ch) * s(k, ch)
      sumSq(ch) == sq(0, ch) + sq(1, ch) + sq(2, ch) + sq(3, ch) + sq(4, ch)
                     + sq(5, ch) + sq(6, ch) + sq(7, ch) + sq(8, ch)
      mean == QuadrantMean(samples, q)
      v3(ch) == DivT(sumSq(ch), 9) - mean[ch] * mean[ch]
  IN Luminance(<<Max(v3(1), 0), Max(v3(2), 0), Max(v3(3), 0)>>)

\* minIdx = 0; for i = 1..3: if (vars[i] < vars[minIdx]) minIdx = i
MinVarianceIndexLast(vs) ==
  LET m1 == IF vs[1] <= vs[0] THEN 1 ELSE 0
      m2 == IF vs[2] <= vs[m1] THEN 2 ELSE m1
  IN IF vs[3] <= vs[m2] THEN 3 ELSE m2

MinVarianceIndex(vs) ==
  LET m1 == IF vs[1] < vs[0] THEN 1 ELSE 0
      m2 == IF vs[2] < vs[m1] THEN 2 ELSE m1
  IN IF vs[3] < vs[m2] THEN 3 ELSE m2

kuwaharaFilter(samples) ==
  The({QuadrantMean(samples, MinVarianceIndex(vs))
       : vs \in {[q \in 0 .. 3 |-> QuadrantVariance(samples, q)]}})

\* smoothstep(-0.05, -0.5, height): GLSL leaves the result undefined when
\* edge0 >= edge1, so the value is the reference expression or either end
RevealOutcomes(height) == {Smoothstep(-50, -500, height), 0, FP}

\* finalColor of the Kuwahara pass from the filter's result
KuwaharaCompose(filtered, unfiltered, reveal, edgeFactor) ==
  LET bright == Scale3(filtered, u_brightness)
      mixed == Mix3(bright, unfiltered, reveal)
      darkness == DivT(DivT(edgeFactor * u_edgeDarkness, FP)
                         * (FP - DivT(reveal * 500, FP)), FP)
  IN Scale3(mixed, FP - darkness)

\* effectStrength = height < -0.1 ? 0.0 : 1.0, and 1.0 without displacement
effectStrengthSmooth(useDisplacement, height) ==
  IF useDisplacement = 1 THEN FP - Smoothstep(-50, -500, height) ELSE FP

effectStrength(useDisplacement, height) ==
  IF useDisplacement = 1 THEN (IF height < -100 THEN 0 ELSE FP) ELSE FP

\* edge darkening, saturation boost and paper overlay of the enhancement pass
EnhanceEffects(color, edges, paper, strength) ==
  LET darkened == Scale3(color, FP - DivT(DivT(edges * u_edgeDarkening, FP)
                                            * strength, FP))
      gray == Luminance(darkened)
      saturated == Mix3(<<gray, gray, gray>>, darkened,
                        Mix(FP, u_saturation, strength))
      papered == <<DivT(saturated[1] * paper[1], FP),
                   DivT(saturated[2] * paper[2], FP),
                   DivT(saturated[3] * paper[3], FP)>>
  IN Mix3(saturated, papered, DivT(u_paperStrength * strength, FP))

\* vignette, contrast and the final clamp of the enhancement pass
EnhanceFinish(color, radius) ==
  LET vignette == FP - Smoothstep(500, 1200, radius)
      shaded == Scale3(color, Mix(FP, vignette, u_vignetteStrength))
      contrast(x) == DivT((x - 500) * u_contrast, FP) + 500
  IN <<Clamp(contrast(shaded[1]), 0, FP), Clamp(contrast(shaded[2]), 0, FP),
       Clamp(contrast(shaded[3]), 0, FP)>>

\* inputs of one fragment; u is the passes' u_useDisplacement
\* (isMobile ? 0 : 1). The sampled neighbourhoods are flat, split, spiked,
\* cornered and chequered two-colour images, and grey images in which two
\* quadrants of one half share the least variance with different means, the
\* other half being chequered black and white.
ComposeInputs(u) ==
  LET Shades == {(i * FP) \div (FilterShades - 1) : i \in 0 .. (FilterShades - 1)}
      ShadeColors == Shades \X Shades \X Shades
      Greys == {<<s, s, s>> : s \in Shades}
      TwoColorPatterns(a, b) ==
        { [p \in Lattice |-> IF p[1] >= 1 THEN b ELSE a],
          [p \in Lattice |-> IF p[2] >= 1 THEN b ELSE a],
          [p \in Lattice |-> IF p = <<0, 0>> THEN b ELSE a],
          [p \in Lattice |-> IF p[1] >= 1 /\ p[2] >= 1 THEN b ELSE a],
          [p \in Lattice |-> IF p[1] >= 0 /\ p[2] <= 0 THEN a ELSE b],
          [p \in Lattice |-> IF (p[1] + p[2]) % 2 = 0 THEN a ELSE b] }
      TiePattern(flip) ==
        [p \in Lattice |->
           IF flip * p[2] <= -1
           THEN (IF (p[1] + p[2]) % 2 = 0 THEN <<0, 0, 0>> ELSE <<FP, FP, FP>>)
           ELSE IF p[1] <= -1 /\ flip * p[2] >= 1 THEN <<950, 950, 950>>
           ELSE IF p[1] >= 1 /\ flip * p[2] >= 1 THEN <<50, 50, 50>>
           ELSE <<500, 500, 500>>]
      SamplePatterns ==
        { [p \in Lattice |-> a] : a \in ShadeColors }
          \cup UNION { TwoColorPatterns(a, b) : a \in ShadeColors, b \in Greys }
          \cup {TiePattern(1), TiePattern(0 - 1)}
      FlatGrey == [p \in Lattice |-> <<500, 500, 500>>]
      Chequered == [p \in Lattice |-> IF (p[1] + p[2]) % 2 = 0
                                      THEN <<800, 300, 100>>
                                      ELSE <<200, 400, 600>>]
      ComposeHeights == {0 - ((i * FP) \div HeightSteps) : i \in 0 .. HeightSteps}
  IN { [stage |-> "compose", samples |-> s, useDisplacement |-> u,
        height |-> 0, velocity |-> 0, gradientMag |-> 0, dist |-> 0,
        edges |-> 0, paper |-> <<900, 900, 900>>, radius |-> 0]
       : s \in SamplePatterns }
     \cup
     { [stage |-> "compose", samples |-> s, useDisplacement |-> u,
        height |-> h, velocity |-> 100, gradientMag |-> g, dist |-> d,
        edges |-> e, paper |-> <<900, 850, 800>>, radius |-> r]
       : s \in {FlatGrey, Chequered}, h \in ComposeHeights,
         g \in {0, 100}, d \in {0, 150}, e \in {0, 300}, r \in {0, 707} }

InitCompose ==
  /\ InitThreeManager
  /\ InitEnv /\ netFails = {}
  /\ InitController
  /\ InitHistory
  /\ simField = <<>> /\ simSteps = 0
  /\ simPrevField = <<>> /\ simUniforms = [stage |-> "none"]
  /\ SetupDone
  /\ shaderIn \in ComposeInputs(IF isMobile THEN 0 ELSE 1)
  /\ shaderOut = [stage |-> "none"]

\* main() of the Kuwahara pass for this fragment: reveal and edgeFactor of
\* the displacement branch or of the circular fallback, then the filter and
\* the composition
KuwaharaFragment ==
  /\ shaderIn.stage = "compose" /\ shaderOut.stage = "none"
  /\ \E reveal \in
          IF shaderIn.useDisplacement = 1
          THEN RevealOutcomes(shaderIn.height)
          ELSE {FP - Smoothstep(u_revealRadius - u_revealSoftness,
                                u_revealRadius + u_revealSoftness,
                                shaderIn.dist)} :
       LET edgeFactor ==
             IF shaderIn.useDisplacement = 1
             THEN Clamp(DivT(Smoothstep(10, 150, shaderIn.gradientMag)
                               * (FP + DivT(shaderIn.velocity * 2 * 300, FP)),
                             FP), 0, FP)
             ELSE FP - Smoothstep(0, 2 * u_revealSoftness,
                                  Abs(shaderIn.dist - u_revealRadius))
           filtered == kuwaharaFilter(shaderIn.samples)
       IN shaderOut' =
            [stage |-> "kuwahara", filtered |-> filtered, reveal |-> reveal,
             colors |-> [q \in 0 .. 3 |-> QuadrantMean(shaderIn.samples, q)],
             vars |-> [q \in 0 .. 3 |-> QuadrantVariance(shaderIn.samples, q)],
             color |-> KuwaharaCompose(filtered, shaderIn.samples[<<0, 0>>],
                                       reveal, edgeFactor)]
  /\ UNCHANGED <<shaderIn, simField, simSteps, simPrevField, simUniforms>>
  /\ UNCHANGED <<envVars, pointerVars, loopVars, idleVars, washVars,
                 imageVars, resVars, uniformVars, bufferVars, histVars,
                 orderVars, bootVars, colorVars, pageVars>>

\* main() of the enhancement pass for the same fragment, reading the Kuwahara
\* pass's output as tDiffuse
EnhanceFragment ==
  /\ shaderOut.stage = "kuwahara"
  /\ LET strength == effectStrength(shaderIn.useDisplacement, shaderIn.height)
     IN shaderOut' =
          [stage |-> "enhance", filtered |-> shaderOut.filtered,
           colors |-> shaderOut.colors, vars |-> shaderOut.vars,
           reveal |-> shaderOut.reveal, originalColor |-> shaderOut.color,
           effectStrength |-> strength,
           color |-> EnhanceFinish(EnhanceEffects(shaderOut.color,
                                                  shaderIn.edges,
                                                  shaderIn.paper, strength),
                                   shaderIn.radius)]
  /\ UNCHANGED <<shaderIn, simField, simSteps, simPrevField, simUniforms>>
  /\ UNCHANGED <<envVars, pointerVars, loopVars, idleVars, washVars,
                 imageVars, resVars, uniformVars, bufferVars, histVars,
                 orderVars, bootVars, colorVars, pageVars>>

NextCompose == KuwaharaFragment \/ EnhanceFragment

SpecCompose == InitCompose /\ [][NextCompose]_vars

\* ========================================================================
\* Source render shader: one fragment of the image / wash material
\* ========================================================================
UvSteps == 2
WashSteps == 4

\* sweepPos = progress * 2.6 - 0.8
sweepPosShort(progress) == DivT(progress * 2000, FP) - 500

sweepPos(progress) == DivT(progress * 2600, FP) - 800

\* mask = smoothstep(-featherWidth, featherWidth, edge). fbmNoise adds four
\* octaves of noise at amplitudes 0.5, 0.25, 0.125, 0.0625; in.noise holds
\* the values noise() returns (mixes of hash values in [0, 1)) for the
\* large, medium and fine layers; the wash angle is in.angle * pi / 8.
WashMask(in) ==
  LET fbmNoise(n) == DivT(500 * n, FP) + DivT(250 * n, FP)
                       + DivT(125 * n, FP) + DivT(62 * n, FP)
      progress == DivT(DivT(in.washProgress * in.washProgress, FP)
                         * (3 * FP - 2 * in.washProgress), FP)
      rotatedX == DivT((in.uv[1] - 500) * Cos8(in.angle)
                         - (in.uv[2] - 500) * Sin8(in.angle), FP) + 500
      totalNoise == DivT(fbmNoise(in.noise[1]) * 250, FP)
                      + DivT(fbmNoise(in.noise[2]) * 120, FP)
                      + DivT(in.noise[3] * 40, FP)
      edge == rotatedX - sweepPos(progress) + totalNoise
  IN Smoothstep(-150, 150, edge)

\* getImageColor(uv); in.current and in.next are the two texels at imageUv
getImageColor(in) ==
  IF in.washProgress > 0 THEN Mix3(in.next, in.current, WashMask(in))
  ELSE in.current

\* inputs of one fragment
SourceInputs ==
  LET UvGrid == {(i * FP) \div UvSteps : i \in 0 .. UvSteps}
      WashLevels == {(i * FP) \div WashSteps : i \in 0 .. WashSteps}
      NoiseValues == {<<0, 0, 0>>, <<999, 999, 999>>, <<500, 0, 999>>}
  IN { [stage |-> "source", useImage |-> 1, uv |-> <<x, y>>, angle |-> k,
        washProgress |-> p, noise |-> n, current |-> <<800, 300, 100>>,
        next |-> <<200, 400, 600>>, voronoi |-> <<900, 900, 900>>]
       : x \in UvGrid, y \in UvGrid, k \in 0 .. 15, p \in WashLevels,
         n \in NoiseValues }
     \cup
     { [stage |-> "source", useImage |-> 0, uv |-> <<x, y>>, angle |-> 0,
        washProgress |-> 0, noise |-> <<0, 0, 0>>, current |-> <<0, 0, 0>>,
        next |-> <<0, 0, 0>>, voronoi |-> <<900, 900, 900>>]
       : x \in UvGrid, y \in UvGrid }

InitSource ==
  /\ InitThreeManager /\ isMobile = FALSE
  /\ InitEnv /\ netFails = {}
  /\ InitController
  /\ InitHistory
  /\ simField = <<>> /\ simSteps = 0
  /\ simPrevField = <<>> /\ simUniforms = [stage |-> "none"]
  /\ SetupDone
  /\ shaderIn \in SourceInputs
  /\ shaderOut = [stage |-> "none"]

\* main() of the image material for this fragment; the colour
\* getVoronoiColor returns is an input
SourceFragment ==
  /\ shaderIn.stage = "source" /\ shaderOut.stage = "none"
  /\ LET image == IF shaderIn.useImage = 1 THEN getImageColor(shaderIn)
                  ELSE shaderIn.voronoi
         dx == shaderIn.uv[1] - 500
         dy == shaderIn.uv[2] - 500
         vignette == FP - DivT(Isqrt(dx * dx + dy * dy) * 300, FP)
     IN shaderOut' = [stage |-> "source", image |-> image,
                      color |-> Scale3(image, vignette)]
  /\ UNCHANGED <<shaderIn, simField, simSteps, simPrevField, simUniforms>>
  /\ UNCHANGED <<envVars, pointerVars, loopVars, idleVars, washVars,
                 imageVars, resVars, uniformVars, bufferVars, histVars,
                 orderVars, bootVars, colorVars, pageVars>>

NextSource == SourceFragment

SpecSource == InitSource /\ [][NextSource]_vars

\* ========================================================================
\* Page interactions (main.ts): the project accordion and the experience
\* panel.  The is-active class of an item and the is-pinned class of the
\* panel follow pinnedItem; isDesktop is window.innerWidth >= 1024 as of
\* the last resize, which is what IsDesktop reads.
\* ========================================================================
NumArticles == 3
NumItems == 2
Articles == 1 .. NumArticles
Items == 1 .. NumItems

IsDesktop == window[1] >= 1024

\* a toggle that leaves the other articles alone
toggleAccordionKeepsOthers(article) ==
  IF article \in expandedArticles
  THEN expandedArticles \ {article}
  ELSE expandedArticles \cup {article}

\* initProjectAccordion, toggleAccordion(article): the articles carrying
\* is-expanded afterwards
toggleAccordion(article) ==
  LET isExpanded == article \in expandedArticles
      collapsed == expandedArticles \cap {article}
  IN IF isExpanded THEN collapsed \ {article} ELSE collapsed \cup {article}

\* scheduleHidePanel(): hideTimeout afterwards
scheduleHidePanel(pinned, hovering, timeout) ==
  IF pinned # 0 \/ hovering THEN timeout ELSE "pending"

\* what the page handlers leave alone
pageFrame ==
  UNCHANGED <<envVars, pointerVars, loopVars, idleVars, washVars, imageVars,
              resVars, uniformVars, bufferVars, simVars, events, stepCount,
              renderCount, washCount, lastSource, lastTarget, prevTarget,
              lastReadTags, lastStepTag, mappingChangedBy, lastTriggerTime,
              prevTriggerTime, lastCompleteTime, lastMoveTime, lastMoveState,
              orderVars, bootVars, colorVars>>

\* click on a project article; onLink: the target is inside an <a>
ArticleClick(article, onLink) ==
  /\ expandedArticles' =
       IF onLink \/ window[1] >= 1024 THEN expandedArticles
       ELSE toggleAccordion(article)
  /\ lastOp' = IF onLink THEN "linkClick" ELSE "articleClick"
  /\ UNCHANGED <<pinnedItem, isHoveringAnyItem, hideTimeout, panelVisible,
                 expandedItems>>
  /\ pageFrame

\* mouseenter on an experience item
ItemEnter(item) ==
  /\ IF IsDesktop
     THEN /\ isHoveringAnyItem' = TRUE
          /\ hideTimeout' = Null
          /\ panelVisible' = IF pinnedItem = 0 THEN TRUE ELSE panelVisible
     ELSE UNCHANGED <<isHoveringAnyItem, hideTimeout, panelVisible>>
  /\ lastOp' = "itemEnter"
  /\ UNCHANGED <<expandedArticles, pinnedItem, expandedItems>>
  /\ pageFrame

\* mouseleave on an experience item
ItemLeave(item) ==
  /\ IF IsDesktop
     THEN /\ isHoveringAnyItem' = FALSE
          /\ hideTimeout' = scheduleHidePanel(pinnedItem, FALSE, hideTimeout)
     ELSE UNCHANGED <<isHoveringAnyItem, hideTimeout>>
  /\ lastOp' = "itemLeave"
  /\ UNCHANGED <<expandedArticles, pinnedItem, panelVisible, expandedItems>>
  /\ pageFrame

\* click on an experience item: pinPanel(item) on desktop, the inline
\* accordion otherwise
ItemClick(item) ==
  /\ IF IsDesktop
     THEN /\ pinnedItem' = IF pinnedItem = item THEN 0 ELSE item
          /\ hideTimeout' =
               IF pinnedItem = item
               THEN scheduleHidePanel(0, isHoveringAnyItem, Null)
               ELSE Null
          /\ UNCHANGED expandedItems
     ELSE /\ expandedItems' = IF item \in expandedItems THEN {} ELSE {item}
          /\ UNCHANGED <<pinnedItem, hideTimeout>>
  /\ lastOp' = "itemClick"
  /\ UNCHANGED <<expandedArticles, isHoveringAnyItem, panelVisible>>
  /\ pageFrame

\* click on the close button: closePanel()
CloseClick ==
  /\ hideTimeout' = Null
  /\ pinnedItem' = 0
  /\ panelVisible' = FALSE
  /\ lastOp' = "closeClick"
  /\ UNCHANGED <<expandedArticles, isHoveringAnyItem, expandedItems>>
  /\ pageFrame

\* mouseenter on the panel
PanelEnter ==
  /\ hideTimeout' = IF IsDesktop THEN Null ELSE hideTimeout
  /\ lastOp' = "panelEnter"
  /\ UNCHANGED <<expandedArticles, pinnedItem, isHoveringAnyItem,
                 panelVisible, expandedItems>>
  /\ pageFrame

\* mouseleave on the panel
PanelLeave ==
  /\ hideTimeout' =
       IF IsDesktop /\ pinnedItem = 0
       THEN scheduleHidePanel(pinnedItem, isHoveringAnyItem, hideTimeout)
       ELSE hideTimeout
  /\ lastOp' = "panelLeave"
  /\ UNCHANGED <<expandedArticles, pinnedItem, isHoveringAnyItem,
                 panelVisible, expandedItems>>
  /\ pageFrame

\* the linger timer set by scheduleHidePanel fires; hideTimeout keeps the id
LingerExpires ==
  /\ hideTimeout = "pending"
  /\ hideTimeout' = "fired"
  /\ panelVisible' = IF pinnedItem = 0 /\ ~isHoveringAnyItem
                     THEN FALSE ELSE panelVisible
  /\ lastOp' = "lingerExpires"
  /\ UNCHANGED <<expandedArticles, pinnedItem, isHoveringAnyItem,
                 expandedItems>>
  /\ pageFrame

\* window resize: Portfolio.handleResize and the panel's handleResize
PageResize(w) ==
  /\ w # window
  /\ window' = w
  /\ IF ResizeHandled
     THEN /\ resolution' = ResolutionOf(w)
          /\ noiseResolution' = ResolutionOf(w)
          /\ kuwaharaResolution' = ResolutionOf(w)
          /\ watercolorResolution' = ResolutionOf(w)
          /\ dispResolution' = ResolutionOf(w)
          /\ mappingChangedBy' = IF ResolutionOf(w) # dispResolution
                                 THEN "resize" ELSE mappingChangedBy
     ELSE UNCHANGED <<resolution, noiseResolution, kuwaharaResolution,
                      watercolorResolution, dispResolution, mappingChangedBy>>
  /\ IF IsDesktop # (w[1] >= 1024)
     THEN /\ hideTimeout' = Null
          /\ isHoveringAnyItem' = FALSE
          /\ pinnedItem' = 0
          /\ panelVisible' = FALSE
          /\ expandedItems' = {}
     ELSE UNCHANGED <<hideTimeout, isHoveringAnyItem, pinnedItem,
                      panelVisible, expandedItems>>
  /\ lastOp' = "resize"
  /\ UNCHANGED <<now, hidden, netFails, nextPollTime, rafPending, rafReady,
                 pointerVars, loopVars, idleVars, washVars, imageVars,
                 isMobile, uniformVars, bufferVars, simVars, events,
                 stepCount, renderCount, washCount, lastSource, lastTarget,
                 prevTarget, lastReadTags, lastStepTag, lastTriggerTime,
                 prevTriggerTime, lastCompleteTime, lastMoveTime,
                 lastMoveState, orderVars, bootVars, colorVars,
                 expandedArticles>>

NextPage ==
  \/ \E article \in Articles, onLink \in BOOLEAN : ArticleClick(article, onLink)
  \/ \E item \in Items : ItemEnter(item)
  \/ \E item \in Items : ItemLeave(item)
  \/ \E item \in Items : ItemClick(item)
  \/ CloseClick
  \/ PanelEnter
  \/ PanelLeave
  \/ LingerExpires
  \/ \E w \in ResizeInputs : PageResize(w)

SpecPage == Init /\ [][NextPage]_vars

\* ========================================================================
\* Properties
\* ========================================================================
TriggerStep == washCount' = washCount + 1
CompleteStep == isWashTransitioning /\ ~isWashTransitioning'
MoveStep == lastMoveTime' = now /\ events' = events + 1 /\ lastOp' = "mousemove"
IdleEntryStep == ~isIdle /\ isIdle'
Settled == ~PollDue /\ ~FrameDue /\ ~hidden /\ isAnimating /\ loadsDone

\* C1: after every simulation step, whatever the previous field, the pointer
\* input and the parameters, every cell has height in [-1, 0] and velocity
\* in [-0.2, 0.2].
C1_ClampAfterEveryStep ==
  simSteps >= 1 =>
    \A c \in Cells : /\ simField[c][1] >= -FP /\ simField[c][1] <= 0
                     /\ simField[c][2] >= -200 /\ simField[c][2] <= 200

\* C1 witness: two steps have run and both clamps are met with equality.
C1_Witness ==
  /\ simSteps = 2
  /\ \E c \in Cells : simField[c][1] = -FP
  /\ \E c \in Cells : simField[c][2] = 200

\* C2: the role flag is 'A' exactly after an even number of displacement
\* passes; each pass reads one buffer and writes the other; consecutive
\* passes write different buffers.
C2_BufferAlternation ==
  /\ (currentDisplacementTarget = "A") <=> (stepCount % 2 = 0)
  /\ stepCount >= 1 => /\ lastSource # lastTarget
                       /\ tPrevState = lastSource
  /\ stepCount >= 2 => lastTarget # prevTarget

\* C2 witness: three passes have run and the flag is 'B'.
C2_Witness == stepCount = 3 /\ currentDisplacementTarget = "B"

\* C3: in every desktop frame the displacement texture handed to the
\* painterly and enhancement passes is the buffer that this frame's step
\* has just written, never the one it read.
C3_PipelineSamplesFreshField ==
  (~isMobile /\ renderCount >= 1) =>
    /\ kuwaharaDisplacement = lastTarget
    /\ watercolorDisplacement = lastTarget
    /\ kuwaharaDisplacement # lastSource

\* C4 as stated: with no activity from t = 0 the state is Active until
\* 15 s, Idle from 15 s, Washing from 30 s, and Idle again from 35 s with
\* the image index advanced by one.
C4_ScenarioAsStated ==
  (~isMobile /\ lastMoveTime = -1 /\ Settled) =>
    /\ now < idleTimeout => ~isIdle
    /\ now >= idleTimeout => isIdle
    /\ (now >= 2 * idleTimeout /\ now < 2 * idleTimeout + washDuration)
         => isWashTransitioning
    /\ (now >= 2 * idleTimeout + washDuration /\ now < 3 * idleTimeout)
         => /\ ~isWashTransitioning
            /\ currentPaintingIndex = 1

\* C4 amended: with no activity from t = 0 the state is Active through
\* t = 15 s; Idle is entered by the first idle poll after 15 s; the wash is
\* triggered by the first poll more than 15 s after that entry (so after
\* 30 s) and sets the image index to 1; it completes at the first frame
\* update at or after wash start + 5 s, isIdle staying true.
C4_ScenarioAmended ==
  (~isMobile /\ lastMoveTime = -1) =>
    /\ now <= idleTimeout => ~isIdle
    /\ (~PollDue /\ now > idleTimeout) => isIdle
    /\ isIdle => idleStartTime > idleTimeout
    /\ (washCount = 0 /\ ~PollDue /\ isIdle)
         => now - idleStartTime <= idleTimeout
    /\ washCount = 0 => /\ currentPaintingIndex = 0
                        /\ ~isWashTransitioning
    /\ washCount = 1 => /\ washStartTime > 2 * idleTimeout
                        /\ currentPaintingIndex = 1
                        /\ isIdle
    /\ (washCount = 1 /\ isWashTransitioning)
         => /\ lastFrameTime < washStartTime + washDuration
            /\ tmPaintingIndex = 0
    /\ (washCount = 1 /\ ~isWashTransitioning)
         => /\ lastCompleteTime >= washStartTime + washDuration
            /\ tmPaintingIndex = 1

\* C4 witness: the undisturbed run has completed its first wash.
C4_Witness ==
  /\ ~isMobile /\ lastMoveTime = -1
  /\ washCount = 1 /\ ~isWashTransitioning /\ isIdle
  /\ lastCompleteTime > 2 * idleTimeout + washDuration

\* C5: a pointer-move event makes the state Active within the handler and
\* restarts the idle clock at the event time: the next Idle entry is later
\* than event time + idleTimeout and the next wash trigger later than
\* event time + 2 x idleTimeout.
C5_ActivityRestartsClock ==
  [][ /\ MoveStep => (~isIdle' /\ lastActivityTime' = now)
      /\ (IdleEntryStep /\ lastMoveTime >= 0)
           => now > lastMoveTime + idleTimeout
      /\ (TriggerStep /\ lastMoveTime >= 0)
           => now > lastMoveTime + 2 * idleTimeout ]_vars

\* C5 witness: Idle has been entered again after an event that arrived
\* while the state was Idle.
C5_Witness ==
  /\ lastMoveState[1] /\ lastMoveTime > idleTimeout
  /\ isIdle /\ idleStartTime > lastMoveTime + idleTimeout

\* C6: a pointer-move event during a wash leaves the wash untouched, and
\* the wash completes at the first frame at or after wash start +
\* washDuration.
C6_ActivityDoesNotInterruptWash ==
  /\ [][ /\ (MoveStep /\ isWashTransitioning)
              => UNCHANGED <<isWashTransitioning, washStartTime,
                             washProgress, u_washProgress, u_washAngle,
                             currentPaintingIndex, tmPaintingIndex>>
         /\ CompleteStep => now >= washStartTime + washDuration ]_vars
  /\ [](isWashTransitioning => lastFrameTime < washStartTime + washDuration)

\* C6 witness: a wash that was in flight when the pointer moved has
\* completed afterwards.
C6_Witness ==
  /\ lastMoveState[2] /\ ~isWashTransitioning
  /\ lastTriggerTime < lastMoveTime /\ lastCompleteTime > lastMoveTime

C8_CyclicIndex ==
  /\ [](/\ currentPaintingIndex \in PaintingIdx
        /\ currentPaintingIndex = washCount % totalPaintings)
  /\ [][ TriggerStep =>
           /\ currentPaintingIndex' = (currentPaintingIndex + 1) % totalPaintings
           /\ isWashTransitioning' /\ washProgress' = 0
           /\ washStartTime' = now
           /\ u_washAngle' \in WashAngles ]_vars

\* C8 witness: the cycle has wrapped around to the first painting.
C8_Witness == washCount = totalPaintings /\ currentPaintingIndex = 0

\* C9: every wash trigger is issued by the idle poll from Idle, with no
\* wash in flight, after more than idleTimeout of idleness in which no
\* pointer-move event occurred.
C9_WashOnlyFromSustainedIdle ==
  [][ TriggerStep =>
        /\ lastOp' = "poll"
        /\ isIdle /\ isIdle' /\ ~isWashTransitioning
        /\ now - idleStartTime > idleTimeout
        /\ now - lastActivityTime > idleTimeout
        /\ lastMoveTime >= 0 => now - lastMoveTime > idleTimeout ]_vars

\* C9 witness: a wash has just been triggered in a run with an earlier
\* pointer-move event.
C9_Witness ==
  /\ lastOp = "poll" /\ lastTriggerTime = now /\ isWashTransitioning
  /\ lastMoveTime >= 0

\* C10: after the image aspect mapping has changed through a wash
\* completion or a resize, no simulation step reads a buffer that still
\* holds heights injected under an earlier mapping.
C10_ClearedOnAspectChange ==
  (stepCount >= 1 /\ mappingChangedBy \in {"complete", "resize"})
    => lastReadTags \subseteq {lastStepTag}

UpdateStep == lastOp' \in {"start", "frame"} /\ isAnimating'

\* C11 as stated: within one frame update the simulation step comes first,
\* before pointer smoothing, intensity, wash advance and the push of the
\* parameters: the step runs with the parameters left by the frame before.
C11_OrderAsStated ==
  [][ (UpdateStep /\ ~isMobile) =>
        /\ lastStepUniforms'.mouse = dispMouse
        /\ lastStepUniforms'.isActive = u_isActive
        /\ lastStepUniforms'.moveIntensity = u_moveIntensity
        /\ lastStepUniforms'.time = u_time
        /\ lastStepUniforms'.imageAspect = dispImageAspect ]_vars

\* C11 amended: within one frame update the pointer position is smoothed,
\* the movement intensity recomputed and the wash advanced first; the
\* updated parameters are pushed; then the simulation is advanced one step
\* with these parameters; finally the pipeline is rendered once, with the
\* field handed over after that step.
C11_OrderAmended ==
  [][ (UpdateStep /\ ~isMobile) =>
        /\ lastStepUniforms' =
             [mouse |-> mousePos', prevMouse |-> dispMouse,
              isActive |-> IF isMouseActive THEN FP ELSE 0,
              moveIntensity |-> moveIntensity',
              time |-> now - startTime,
              imageAspect |-> dispImageAspect']
        /\ mousePos' = <<lerp(mousePos[1], targetMousePos[1], mouseLerp),
                         lerp(mousePos[2], targetMousePos[2], mouseLerp)>>
        /\ lastRenderUniforms' =
             [mouse |-> mousePos', washProgress |-> washProgress',
              imageCurrent |-> u_imageCurrent',
              tDisplacement |-> getDisplacementTexture(currentDisplacementTarget'),
              steps |-> stepCount + 1]
        /\ renderCount' = renderCount + 1 ]_vars

\* C11 witness: a desktop frame in which the pointer position moved, so
\* that the order of smoothing, push and step is visible in what the step
\* ran with.
C11_Witness ==
  /\ ~isMobile /\ renderCount >= 2 /\ stepCount >= 2
  /\ lastStepUniforms.mouse # lastStepUniforms.prevMouse
  /\ lastStepUniforms.mouse = mousePos
  /\ lastRenderUniforms.steps = stepCount

\* C12: every frame update on desktop advances the displacement simulation
\* by exactly one step and renders the pipeline exactly once.
C12_OneStepOneRenderPerFrame ==
  [][ (UpdateStep /\ ~isMobile) =>
        /\ stepCount' = stepCount + 1
        /\ renderCount' = renderCount + 1
        /\ lastTarget' = TargetOf(currentDisplacementTarget)
        /\ lastFrameTime' = now ]_vars

\* C12 witness: three desktop frames have run three steps and three renders.
C12_Witness == ~isMobile /\ renderCount = 3 /\ stepCount = 3

\* C13: the idle poll does not depend on the frame callback: also while
\* the view is hidden and frames are suspended, the state is Idle once more
\* than idleTimeout has passed without activity, and a wash is triggered
\* once Idle has lasted more than a further idleTimeout.
C13_PollIndependentOfFrames ==
  (idleCheckInterval # Null /\ ~PollDue) =>
    /\ (now - lastActivityTime > idleTimeout) => isIdle
    /\ (isIdle /\ ~isWashTransitioning /\ lastCompleteTime < now)
         => now - idleStartTime <= idleTimeout

\* C13 witness: the view was hidden before the first idle period began, no
\* frame has run since, and a wash has been triggered all the same.
C13_Witness ==
  /\ hidden /\ lastFrameTime = 0 /\ lastMoveTime = -1
  /\ isIdle /\ washCount = 1 /\ isWashTransitioning
  /\ now > washStartTime

\* C14: a background image whose load failed is skipped by the cycle: a
\* wash in flight never has a failed index as its next image, and after
\* every wash completion the displayed image is the loaded image of the
\* controller's image index.
C14_FailedImageSkipped ==
  (loadsDone /\ ~isMobile /\ netFails # PaintingIdx) =>
    /\ isWashTransitioning
         => /\ paintingTextures[currentPaintingIndex] # NoTexture
            /\ u_imageNext = currentPaintingIndex
    /\ (lastCompleteTime >= 0 /\ ~isWashTransitioning)
         => /\ paintingTextures[currentPaintingIndex] # NoTexture
            /\ u_imageCurrent = currentPaintingIndex

\* C15: if no background image loaded, the source stage is in procedural
\* mode (u_useImage = 0) from the moment all loads have settled, and stays
\* there through wash triggers, wash completions, resizes and frames.
C15_ProceduralFallbackIsPermanent ==
  (loadsDone /\ \A i \in PaintingIdx : paintingTextures[i] = NoTexture)
    => u_useImage = 0

\* C15 witness: no image loaded, and a wash has been triggered and
\* completed since, with the stage still in procedural mode.
C15_Witness ==
  /\ loadsDone /\ netFails = PaintingIdx
  /\ \A i \in PaintingIdx : paintingTextures[i] = NoTexture
  /\ washCount >= 1 /\ lastCompleteTime >= 0 /\ renderCount >= 2
  /\ u_useImage = 0

\* C19: stopping the frame loop cancels all per-frame work: from stop()
\* until start() is called again no update() runs (no smoothing, no wash
\* advance, no simulation step, no render), and a frame callback scheduled
\* before stop() does nothing but return when it fires.
C19_StopCancelsFrameWork ==
  [][ /\ (~isAnimating /\ ~isAnimating' /\ lastOp # "constructor")
           => UNCHANGED <<mousePos, prevMousePos, moveIntensity,
                          targetMoveIntensity, lastFrameTime, washProgress,
                          tmPaintingIndex, uniformVars,
                          u_washProgress, bufferVars, stepCount,
                          renderCount, orderVars, bootVars>>
      /\ (~isAnimating /\ lastOp' = "frame")
           => /\ rafPending' = rafPending - 1
              /\ ~isAnimating' ]_vars

\* C19 witness: the loop was stopped, the callback scheduled before the
\* stop has fired without an update, and a wash that is overdue has not
\* been advanced since.
C19_Witness ==
  /\ ~isAnimating /\ lastOp = "tick"
  /\ rafPending = 0 /\ renderCount >= 2
  /\ now >= lastFrameTime + 2 * TimeQuantum
  /\ isWashTransitioning /\ now >= washStartTime + washDuration

\* C16: when the browser offers no WebGL context, or the renderer
\* constructor throws, the core stays disabled after setup: no
\* SceneController, the canvas hidden, one initialisation attempt, and no
\* frame, simulation step, render or idle poll ever runs.
C16_NoWebGLDisablesCore ==
  (setupPhase # "page" /\ ~prefersReducedMotion
     /\ (glContext = 0 \/ glContext = GlThrows)) =>
    /\ sceneController = Null
    /\ glContext = GlThrows => threeManager = Null
    /\ canvasHidden
    /\ initAttempts = 1
    /\ ~isAnimating /\ rafPending = 0
    /\ stepCount = 0 /\ renderCount = 0
    /\ nextPollTime = PollPeriod /\ ~isIdle /\ washCount = 0

C16_Witness ==
  /\ glContext = 0 /\ ~prefersReducedMotion
  /\ setupPhase = "revealed" /\ threeManager = "created"
  /\ now >= loadTimeout /\ loadsDone /\ lastOp = "resize"

\* C17: under a fair event loop every run of setup() reaches reveal(),
\* whether or not fonts and images ever finish loading.
C17_StartupNeverBlocks == <>(setupPhase = "revealed")

C17_Witness ==
  /\ setupPhase = "revealed" /\ ~fontsReady /\ loadsSettled = 0
  /\ now >= loadTimeout /\ lastOp = "race"

\* C18: with reduced motion requested at setup neither WebGL object is
\* ever created, the canvas is hidden, and no simulation step, render,
\* idle poll or painting load happens.
C18_ReducedMotionDisablesCore ==
  (setupPhase # "page" /\ prefersReducedMotion) =>
    /\ threeManager = Null /\ sceneController = Null
    /\ canvasHidden
    /\ initAttempts = 0
    /\ ~isAnimating /\ rafPending = 0
    /\ stepCount = 0 /\ renderCount = 0
    /\ nextPollTime = PollPeriod /\ ~isIdle /\ washCount = 0
    /\ loadsSettled = 0 /\ resolution = ResolutionOf(InitialWindow)

C18_Witness ==
  /\ prefersReducedMotion /\ glContext = 2
  /\ setupPhase = "revealed" /\ now >= loadTimeout
  /\ window # InitialWindow /\ lastOp = "tick"

\* a component x lies between a and b
Between(a, x, b) == (a <= x /\ x <= b) \/ (b <= x /\ x <= a)

\* every component of the pair cur lies between those of from and to
PairBetween(from, cur, to) ==
  \A i \in 1..3 :
    /\ Between(from.color1[i], cur.color1[i], to.color1[i])
    /\ Between(from.color2[i], cur.color2[i], to.color2[i])

\* C20: a colour transition started by setColors(section) ends at the first
\* update whose time is transitionDuration or more after its start: there
\* the current pair equals the target in every component (and is what was
\* pushed to the material) and isTransitioning is cleared; before that the
\* transition stays on, and all the while every component lies between its
\* value at the start of the transition and the target.
C20_ColorTransitionCompletes ==
  /\ [][ (isTransitioning /\ UpdateStep) =>
           /\ (now' - transitionStartTime >= transitionDuration) =>
                /\ currentColors' = targetColors
                /\ ~isTransitioning'
                /\ u_color1' = targetColors.color1
                /\ u_color2' = targetColors.color2
           /\ (now' - transitionStartTime < transitionDuration) =>
                isTransitioning'
           /\ PairBetween(transitionStartColors, currentColors', targetColors)
       ]_vars
  /\ [](isTransitioning =>
          PairBetween(transitionStartColors, currentColors, targetColors))

C20_Witness ==
  /\ lastOp = "frame" /\ ~isTransitioning /\ sectionChanges = 2
  /\ transitionProgress = FP
  /\ now - transitionStartTime > transitionDuration
  /\ currentColors = targetColors
  /\ currentColors # transitionStartColors
  /\ transitionStartColors # sectionColors("hero")
  /\ \A i \in 1..3 : transitionStartColors.color1[i] # targetColors.color1[i]

\* the smoothed pointer moved by dx, dy gives this target intensity
IntensityTarget(dx, dy) == Min(Isqrt(dx * dx + dy * dy) * SpeedGain, FP)

\* C26 as stated: the intensity stays in [0,1], moves toward
\* min(50 x |smoothed delta|, 1) by 0.3 on attack and 0.05 on release, and
\* in every frame before which the pointer produced no move event since the
\* previous frame the intensity does not increase.
C26_IntensityAsStated ==
  /\ [](0 <= moveIntensity /\ moveIntensity <= FP)
  /\ [][ UpdateStep =>
           LET tgt == IntensityTarget(mousePos'[1] - mousePos[1],
                                      mousePos'[2] - mousePos[2])
           IN /\ targetMoveIntensity' = tgt
              /\ moveIntensity' = moveIntensity +
                   DivT((tgt - moveIntensity)
                          * (IF tgt > moveIntensity THEN AttackRate
                             ELSE ReleaseRate), FP)
              /\ (lastMoveTime < lastFrameTime) =>
                   moveIntensity' <= moveIntensity ]_vars

\* C26 amended: as above, but the intensity is only sure not to increase in
\* a frame in which the smoothed position itself does not move; there it
\* strictly decreases as long as 0.05 of it is representable.
C26_IntensityAmended ==
  /\ [](0 <= moveIntensity /\ moveIntensity <= FP)
  /\ [][ UpdateStep =>
           LET tgt == IntensityTarget(mousePos'[1] - mousePos[1],
                                      mousePos'[2] - mousePos[2])
           IN /\ targetMoveIntensity' = tgt
              /\ moveIntensity' = moveIntensity +
                   DivT((tgt - moveIntensity)
                          * (IF tgt > moveIntensity THEN AttackRate
                             ELSE ReleaseRate), FP)
              /\ (mousePos' = mousePos) =>
                   /\ moveIntensity' <= moveIntensity
                   /\ (moveIntensity * ReleaseRate >= FP) =>
                        moveIntensity' < moveIntensity ]_vars

C26_Witness ==
  /\ lastOp = "frame" /\ lastMoveTime >= 0
  /\ targetMoveIntensity = 0 /\ mousePos # targetMousePos
  /\ moveIntensity * ReleaseRate >= FP /\ moveIntensity < FP
  /\ now > lastMoveTime + 10 * TimeQuantum

\* C27: each frame moves the smoothed pointer, per axis, by 0.1 of its
\* remaining distance to the raw target (rounded toward zero): it never
\* passes the target, stays in [0,1] while the target is in [0,1], and its
\* distance to the target does not increase.
C27_PointerSmoothing ==
  /\ [](\A k \in 1..2 :
          (0 <= targetMousePos[k] /\ targetMousePos[k] <= FP)
            => (0 <= mousePos[k] /\ mousePos[k] <= FP))
  /\ [][ UpdateStep =>
           \A k \in 1..2 :
             /\ mousePos'[k] = mousePos[k]
                  + DivT((targetMousePos[k] - mousePos[k]) * mouseLerp, FP)
             /\ (mousePos[k] <= targetMousePos[k])
                  => (mousePos'[k] <= targetMousePos[k])
             /\ (mousePos[k] >= targetMousePos[k])
                  => (mousePos'[k] >= targetMousePos[k])
             /\ Abs(targetMousePos[k] - mousePos'[k])
                  <= Abs(targetMousePos[k] - mousePos[k]) ]_vars

C27_Witness ==
  /\ lastOp = "frame" /\ lastMoveTime >= 0
  /\ now >= lastMoveTime + 3 * TimeQuantum
  /\ mousePos[1] > 500 /\ mousePos[1] < targetMousePos[1]
  /\ mousePos[2] > 500 /\ mousePos[2] < targetMousePos[2]

\* C28: the resolution is (innerWidth x d, innerHeight x d) with
\* d = min(devicePixelRatio or 1, 2) for the window last resized to, and the
\* noise, painterly, enhancement and simulation stages all hold that value.
C28_ResolutionEverywhere ==
  LET ratio == IF window[3] = 0 THEN FP ELSE window[3]
      d == IF ratio < 2 * FP THEN ratio ELSE 2 * FP
  IN /\ resolution = <<(window[1] * d) \div FP, (window[2] * d) \div FP>>
     /\ noiseResolution = resolution
     /\ kuwaharaResolution = resolution
     /\ watercolorResolution = resolution
     /\ dispResolution = resolution

C28_Witness ==
  /\ lastOp = "resize" /\ window[3] > 2 * FP
  /\ resolution = <<2 * window[1], 2 * window[2]>>
  /\ dispResolution = resolution /\ stepCount > 0

\* C29: on mobile the simulation never advances (the buffer role flag, the
\* buffers and the step count stay as constructed) and the pointer
\* uniforms of the painterly and simulation stages keep their constructed
\* values, whatever is passed to updateMouse, updateDisplacement and
\* render().
C29_MobilePointerDisabled ==
  isMobile =>
    /\ currentDisplacementTarget = "A" /\ tPrevState = Null
    /\ displacementTargetA = {} /\ displacementTargetB = {}
    /\ stepCount = 0
    /\ kuwaharaMouse = Center
    /\ dispMouse = Center /\ dispPrevMouse = Center
    /\ u_isActive = 0 /\ u_moveIntensity = 0
    /\ kuwaharaDisplacement \in {Null, Placeholder}
    /\ watercolorDisplacement \in {Null, Placeholder}

C29_Witness ==
  /\ isMobile /\ renderCount >= 2 /\ lastOp = "updateDisplacement"
  /\ kuwaharaDisplacement = Placeholder

\* C30: at most one animation callback chain is live, so that update() runs
\* at most once per display frame, for every interleaving of start(),
\* stop() and frame callbacks.
C30_SingleCallbackChain ==
  /\ [](rafPending <= 1)
  /\ [][ (UpdateStep /\ lastOp' = "frame") => lastFrameTime < now ]_vars

\* C25: in a step with the pointer active, every cell whose aspect-corrected
\* distance to the pointer is at most brushSize - 0.015 ends with height -1
\* and velocity 0, and every cell at distance brushSize + 0.015 or more ends
\* as it would without injection; with the pointer inactive every cell
\* ends as it would without injection.
C25_BrushInjection ==
  simSteps = 1 =>
    \A c \in Cells :
      LET p == simUniforms
          dist == BrushDistance(c, p)
          untouched == BeforeInjection(simPrevField, c, p)
      IN /\ (p.isActive > 500 /\ dist <= p.brushSize - 15)
              => simField[c] = <<-FP, 0>>
         /\ (p.isActive > 500 /\ dist >= p.brushSize + 15)
              => simField[c] = <<Clamp(untouched[1], -FP, 0),
                                 Clamp(untouched[2], -200, 200)>>
         /\ (p.isActive <= 500)
              => simField[c] = <<Clamp(untouched[1], -FP, 0),
                                 Clamp(untouched[2], -200, 200)>>

C25_Witness ==
  /\ simSteps = 1 /\ simUniforms.isActive > 500
  /\ simUniforms.brushSize = 400
  /\ \E c \in Cells :
       /\ BrushDistance(c, simUniforms) <= simUniforms.brushSize - 15
       /\ simPrevField[c][2] # 0 /\ simPrevField[c][1] # -FP
       /\ simField[c] = <<-FP, 0>>
  /\ \E c \in Cells :
       /\ BrushDistance(c, simUniforms) >= simUniforms.brushSize + 15
       /\ simField[c][1] # -FP
  /\ \E c \in Cells :
       /\ BrushDistance(c, simUniforms) > simUniforms.brushSize - 15
       /\ BrushDistance(c, simUniforms) < simUniforms.brushSize + 15

\* The statement of C21 and C22 in terms of the fragment's inputs: the nine
\* lattice points quadrant q samples, and mean and variance over them
QuadrantPoints(q) ==
  {p \in Lattice : /\ (IF q % 2 = 0 THEN p[1] <= 0 ELSE p[1] >= 0)
                   /\ (IF q < 2 THEN p[2] >= 0 ELSE p[2] <= 0)}

RECURSIVE SumOver(_, _)
SumOver(f, S) ==
  IF S = {} THEN 0
  ELSE LET p == CHOOSE x \in S : TRUE IN f[p] + SumOver(f, S \ {p})

\* E[x] and E[x^2] - E[x]^2 of channel ch over the fragment's quadrant q
StatedMean(q, ch) ==
  DivT(SumOver([p \in Lattice |-> shaderIn.samples[p][ch]],
               QuadrantPoints(q)), 9)
StatedChannelVariance(q, ch) ==
  DivT(SumOver([p \in Lattice |->
                  shaderIn.samples[p][ch] * shaderIn.samples[p][ch]],
               QuadrantPoints(q)), 9) - StatedMean(q, ch) * StatedMean(q, ch)
StatedVariance(q) ==
  DivT(299 * Max(StatedChannelVariance(q, 1), 0)
         + 587 * Max(StatedChannelVariance(q, 2), 0)
         + 114 * Max(StatedChannelVariance(q, 3), 0), FP)
Filtered == shaderOut.stage \in {"kuwahara", "enhance"}

\* C21: on a neighbourhood of one uniform colour c the Kuwahara filter
\* returns exactly c, every quadrant's variance is zero and every quadrant's
\* mean is c.
C21_UniformIsFixedPoint ==
  Filtered =>
    LET c == shaderIn.samples[<<0, 0>>]
    IN (\A p \in Lattice : shaderIn.samples[p] = c) =>
         /\ shaderOut.filtered = c
         /\ \A q \in 0 .. 3 : shaderOut.vars[q] = 0 /\ shaderOut.colors[q] = c

\* C21 witness: the filter has run on a uniform neighbourhood of a colour
\* that is neither grey nor black and returned it, while the pass's own
\* output is that colour brightened.
C21_Witness ==
  /\ shaderOut.stage = "kuwahara"
  /\ \A p \in Lattice : shaderIn.samples[p] = <<500, 0, 1000>>
  /\ shaderOut.filtered = <<500, 0, 1000>>
  /\ shaderOut.color = <<700, 0, 1400>>

\* C22: for every neighbourhood the filter returns the 9-sample mean of the
\* quadrant whose scalar variance (per channel E[x^2] - E[x]^2, floored at
\* 0, weighted 0.299/0.587/0.114) is least, the lowest-indexed such quadrant
\* when several share the least variance.
C22_MinVarianceMean ==
  Filtered =>
    \E q \in 0 .. 3 :
      /\ \A r \in 0 .. 3 : StatedVariance(q) <= StatedVariance(r)
      /\ \A r \in 0 .. 3 : r < q => StatedVariance(r) > StatedVariance(q)
      /\ shaderOut.filtered =
           <<StatedMean(q, 1), StatedMean(q, 2), StatedMean(q, 3)>>

\* C22 witness: quadrants 2 and 3 share the least variance, which is not
\* zero, their means differ, and the filter returned quadrant 2's mean.
C22_Witness ==
  /\ shaderOut.stage = "kuwahara"
  /\ StatedVariance(2) = StatedVariance(3) /\ StatedVariance(2) > 0
  /\ StatedVariance(0) > StatedVariance(2)
  /\ StatedVariance(1) > StatedVariance(2)
  /\ StatedMean(2, 1) # StatedMean(3, 1)
  /\ shaderOut.filtered = <<StatedMean(2, 1), StatedMean(2, 2), StatedMean(2, 3)>>

C24_WashEndpoints ==
  (shaderOut.stage = "source" /\ shaderIn.useImage = 1) =>
    /\ shaderIn.washProgress = 0 => shaderOut.image = shaderIn.current
    /\ shaderIn.washProgress = FP => shaderOut.image = shaderIn.next

\* C24 witness: at progress 1, in the corner the sweep reaches last and with
\* the largest noise, the colour is the next image's, which differs from the
\* current image's.
C24_Witness ==
  /\ shaderOut.stage = "source" /\ shaderIn.useImage = 1
  /\ shaderIn.washProgress = FP
  /\ shaderIn.uv = <<FP, 0>> /\ shaderIn.angle = 2
  /\ shaderIn.noise = <<999, 999, 999>>
  /\ shaderIn.next # shaderIn.current
  /\ shaderOut.image = shaderIn.next

\* C31: the image index changes on exactly the steps that start a wash, and
\* a wash starts only when none is in flight; a completion leaves the index
\* alone. Hence wash starts and completions alternate and the index changes
\* exactly once between two consecutive completions, however long the frame
\* callbacks are suspended while the poll keeps firing.
C31_OneAdvancePerWash ==
  [][ /\ (currentPaintingIndex' # currentPaintingIndex)
           <=> (~isWashTransitioning /\ isWashTransitioning')
      /\ (currentPaintingIndex' # currentPaintingIndex)
           => /\ currentPaintingIndex' = (currentPaintingIndex + 1) % totalPaintings
              /\ washCount' = washCount + 1
      /\ isWashTransitioning => washCount' = washCount ]_vars

\* C31 witness: the tab is hidden, a wash has been in flight for longer than
\* the idle timeout plus a poll period, the poll has just fired again and
\* the index has advanced once only.
C31_Witness ==
  /\ hidden /\ isWashTransitioning /\ lastOp = "poll"
  /\ now - lastTriggerTime > idleTimeout + PollPeriod
  /\ now - idleStartTime > idleTimeout
  /\ washCount = 1 /\ currentPaintingIndex = 1 /\ tmPaintingIndex = 0

\* C32: a frame update that finds a wash in flight ends it exactly when the
\* clock has reached washStartTime + washDuration; nothing but a frame
\* update ends a wash, so it stays in flight while frame updates are
\* suspended; and nothing moves washStartTime while the wash is in flight,
\* so neither activity nor the poll postpones the completion.
C32_WashCompletesOnTime ==
  [][ /\ (UpdateStep /\ ~isMobile /\ isWashTransitioning)
           => (isWashTransitioning' <=> now < washStartTime + washDuration)
      /\ CompleteStep => UpdateStep
      /\ isWashTransitioning => washStartTime' = washStartTime ]_vars

\* C32 witness: a wash has completed exactly washDuration after its
\* trigger although the pointer moved, and ended the idle state, while it
\* was in flight.
C32_Witness ==
  /\ ~isWashTransitioning /\ washCount = 1
  /\ lastCompleteTime = lastTriggerTime + washDuration
  /\ lastMoveTime > lastTriggerTime /\ lastMoveTime < lastCompleteTime
  /\ lastMoveState = <<TRUE, TRUE>>
  /\ tmPaintingIndex = 1

\* C33: whenever no wash is in flight the controller's image index equals
\* the renderer's; while a wash is in flight it is the renderer's index
\* plus one, modulo the number of paintings.
C33_IndexAgreement ==
  /\ ~isWashTransitioning => currentPaintingIndex = tmPaintingIndex
  /\ isWashTransitioning =>
       currentPaintingIndex = (tmPaintingIndex + 1) % totalPaintings

\* C33 witness: the wash that wraps the cycle is in flight, the controller
\* is back at index 0 and the renderer still at the last painting.
C33_Witness ==
  /\ isWashTransitioning /\ washCount = totalPaintings
  /\ currentPaintingIndex = 0 /\ tmPaintingIndex = totalPaintings - 1

\* C34: washProgress is always within [0, 1] and is 0 whenever no wash is in
\* flight; a frame update that leaves the wash in flight does not lower it;
\* and after every frame update the source-render stage's u_washProgress
\* equals the controller's washProgress.
C34_WashProgressBounds ==
  /\ [](washProgress >= 0 /\ washProgress <= FP)
  /\ [](~isWashTransitioning => washProgress = 0)
  /\ [][ /\ (UpdateStep /\ isWashTransitioning /\ isWashTransitioning')
              => washProgress' >= washProgress
         /\ UpdateStep => u_washProgress' = washProgress' ]_vars

\* C34 witness: a frame update in the middle of a wash has set the
\* controller's progress and the uniform to one half.
C34_Witness ==
  /\ isWashTransitioning /\ lastOp = "frame"
  /\ now - washStartTime = washDuration \div 2
  /\ washProgress = FP \div 2 /\ u_washProgress = FP \div 2

\* C35: with the pointer inactive, a step that reads the all-zero field
\* (height 0 and velocity 0 in every cell) writes the all-zero field, for
\* every parameter choice and every time value.
C35_ZeroFieldIsFixedPoint ==
  (/\ simSteps = 1
   /\ simUniforms.isActive <= 500
   /\ \A c \in Cells : simPrevField[c] = <<0, 0>>)
    => \A c \in Cells : simField[c] = <<0, 0>>

\* C35 witness: the zero field has been stepped with the pointer inactive,
\* full movement intensity, a rotated sampling ring and the largest
\* expansion, fill and wave parameters, and is still zero.
C35_Witness ==
  /\ simSteps = 1
  /\ simUniforms.isActive = 0 /\ simUniforms.moveIntensity = FP
  /\ simUniforms.time > 0 /\ simUniforms.expandRate = 3000
  /\ \A c \in Cells : simPrevField[c] = <<0, 0>> /\ simField[c] = <<0, 0>>

\* C36: once dispose() has run (the loop is stopped, which in this
\* specification only dispose() does) no step is a frame update, a
\* simulation step, a render or an idle poll, and none enters Idle,
\* triggers a wash or changes the image index; the loop stays stopped.
C36_DisposeStopsEverything ==
  [][ (Constructed /\ ~isAnimating) =>
        /\ ~UpdateStep /\ ~isAnimating'
        /\ stepCount' = stepCount /\ renderCount' = renderCount
        /\ lastOp' # "poll"
        /\ ~IdleEntryStep
        /\ washCount' = washCount
        /\ isWashTransitioning' = isWashTransitioning
        /\ currentPaintingIndex' = currentPaintingIndex
        /\ tmPaintingIndex' = tmPaintingIndex ]_vars

\* C36 witness: on desktop, long after a dispose() that came before the
\* first idle entry, and after a pointer move that followed it, the
\* interval is cleared, the queued frame callback has been dropped and
\* neither Idle nor a wash has occurred.
C36_Witness ==
  /\ ~isMobile /\ idleCheckInterval = "cleared" /\ ~isAnimating
  /\ rafPending = 0 /\ lastMoveTime > lastFrameTime
  /\ now - lastActivityTime > 2 * idleTimeout + PollPeriod
  /\ now > nextPollTime
  /\ ~isIdle /\ washCount = 0 /\ currentPaintingIndex = 0

\* C37: on mobile the controller is never idle, never has a wash in flight,
\* its wash progress and the uniform stay 0 and both image indices stay at
\* their initial value 0.
C37_MobileNeverIdles ==
  isMobile =>
    /\ ~isIdle /\ ~isWashTransitioning
    /\ washProgress = 0 /\ u_washProgress = 0
    /\ currentPaintingIndex = 0 /\ tmPaintingIndex = 0
    /\ washCount = 0

\* C37 witness: on mobile, frames have run and more than twice the idle
\* timeout plus a poll period has passed without any activity.
C37_Witness ==
  /\ isMobile /\ isAnimating /\ lastOp = "frame" /\ renderCount > 1
  /\ now - lastActivityTime > 2 * idleTimeout + PollPeriod
  /\ ~isIdle /\ currentPaintingIndex = 0

\* C38: at most one project article carries is-expanded, and a click on a
\* link inside an article or on a wide (>= 1024px) viewport changes no
\* article's expanded state.
C38_SingleExpandedArticle ==
  /\ [](Cardinality(expandedArticles) <= 1)
  /\ [][ (lastOp' = "linkClick"
          \/ (lastOp' = "articleClick" /\ window[1] >= 1024))
           => expandedArticles' = expandedArticles ]_vars

\* C38 witness: on a narrow viewport an article other than the first has
\* just been clicked and it alone is expanded.
C38_Witness ==
  /\ window[1] < 1024 /\ lastOp = "articleClick"
  /\ expandedArticles = {NumArticles}

\* C39: on desktop, whenever an experience item is pinned the panel is
\* visible, and the linger timer never hides the panel while an item is
\* pinned or hovered.
C39_PinnedPanelVisible ==
  /\ []((IsDesktop /\ pinnedItem # 0) => panelVisible)
  /\ [][ (lastOp' = "lingerExpires"
          /\ (pinnedItem # 0 \/ isHoveringAnyItem))
           => panelVisible' = panelVisible ]_vars

====
